---- MODULE Spec2Model ----
(***************************************************************************)
(* Model of the client screens of Calo31:                                  *)
(*   - StatisticsScreen       (client/app/(tabs)/statistics.tsx)           *)
(*   - RecommendedMenusScreen (client/app/(tabs)/recommended-menus.tsx)    *)
(*   - FoodScannerScreen      (client/app/(tabs)/recommended-menus.tsx)    *)
(* Each screen is a state machine over its React state; every asynchronous *)
(* handler is split at its await into a start step and a completion step.  *)
(* The pure display helpers are operators.  An optional JavaScript value   *)
(* is a record with a presence flag (TLC cannot compare values of          *)
(* different kinds), e.g. [has |-> FALSE, v |-> 0] for undefined.          *)
(* A setState call takes effect in the step that makes it: handlers read   *)
(* the committed state, and a button that the render disables or does not  *)
(* show cannot be pressed.  Alert.alert dialogs are kept as a list of      *)
(* pending dialogs that the user dismisses one at a time.                  *)
(***************************************************************************)
EXTENDS Integers, Sequences, FiniteSets, TLC

VARIABLES
    \* ---- StatisticsScreen ----
    dailyLog,          \* Remote API: the daily records of the requested window
    statistics,        \* statisticsResponse?.data
    statsLoading,      \* isLoading of the useStatistics query
    statsRefetches,    \* onRefresh calls awaiting refetch()
    statsRefreshing,   \* refreshing
    selectedTimeRange, \* selectedTimeRange
    selectedChartType, \* selectedChartType
    showTimeRangeModal, \* showTimeRangeModal
    \* ---- RecommendedMenusScreen ----
    menus,             \* menus
    isLoading,         \* isLoading
    refreshing,        \* refreshing
    isGenerating,      \* isGenerating
    showGenerateModal, \* showGenerateModal
    loadReqs,          \* loadMenus calls awaiting api.get
    nextLoadId,        \* number of loadMenus calls issued so far
    lastLoad,          \* history: the loadMenus call that completed last
    genReqs,           \* generateMenu calls awaiting api.post
    startReqs,         \* handleStartMenu calls awaiting api.post
    lastStart,         \* history: outcome of the start that completed last
    lastGen,           \* history: outcome of the generateMenu completed last
    menuAlerts,        \* Alert.alert dialogs raised by the menus screen
    generateConfig,    \* generateConfig
    lastConfigAction,  \* history: the control of the generate modal used last
    showCustomModal,   \* showCustomModal
    customRequest,     \* customRequest
    customReqs,        \* generateCustomMenu calls awaiting api.post
    \* ---- FoodScannerScreen ----
    showCamera,        \* showCamera
    scanMode,          \* scanMode
    scannedData,       \* scannedData
    isScanning,        \* isScanning
    scanReqs,          \* scanBarcode / scanProductImage calls in flight
    lastScan,          \* history: outcome of the scan that completed last
    scanAlerts,        \* Alert.alert dialogs raised by the scanner screen
    showAddToMealModal, \* showAddToMealModal
    quantity,          \* quantity
    mealTiming,        \* mealTiming
    addReqs,           \* addToMealLog calls awaiting the API
    lastAdd,           \* history: outcome of the addToMealLog completed last
    scanHistory,       \* scanHistory
    showHistory,       \* showHistory
    isLoadingHistory,  \* isLoadingHistory
    historyReqs,       \* loadScanHistory calls awaiting the API
    lastHistory,       \* history: the response of the call completed last
    \* ---- pure display helpers, applied to drawn inputs ----
    tierScore,         \* a compatibility_score handed to the tier helpers
    tierView,          \* what the result card shows for tierScore
    contribPct,        \* a daily_contribution percentage, in tenths of 1%
    contribView,       \* the contribution bar and text for contribPct
    \* ---- StatisticsScreen: an achievement card and the overview cards ----
    achievement,       \* an element of statistics.achievements
    achievementView,   \* the progress bar rendered for it
    summary,           \* the summary fields of statistics
    overview,          \* the overview cards and the no-data state rendered
    \* ---- the server's analysis of a scanned product ----
    analyzeIn,         \* violated thresholds, allergen conflicts, penalties
    analysis,          \* the compatibility_score computed from analyzeIn
    targetIn,          \* a nutrient amount, a quantity and a daily target
    targetOut          \* the daily contribution computed from targetIn

statsVars   == <<dailyLog, statistics, statsLoading, statsRefetches,
                 statsRefreshing>>
menusVars   == <<menus, isLoading, refreshing, isGenerating,
                 showGenerateModal, loadReqs, nextLoadId, lastLoad, genReqs,
                 startReqs, lastStart, lastGen, menuAlerts>>
configVars  == <<generateConfig, lastConfigAction>>
customVars  == <<showCustomModal, customRequest, customReqs>>
historyVars == <<scanHistory, showHistory, isLoadingHistory, historyReqs,
                 lastHistory>>
rangeVars   == <<selectedTimeRange, selectedChartType, showTimeRangeModal>>
scannerVars == <<showCamera, scanMode, scannedData, isScanning, scanReqs,
                 lastScan, scanAlerts>>
mealVars    == <<showAddToMealModal, quantity, mealTiming, addReqs, lastAdd>>
tierVars    == <<tierScore, tierView>>
contribVars == <<contribPct, contribView>>
achVars      == <<achievement, achievementView>>
overviewVars == <<summary, overview>>
analyzeVars  == <<analyzeIn, analysis>>
targetVars   == <<targetIn, targetOut>>
helperVars  == <<achVars, overviewVars, analyzeVars, targetVars>>
vars        == <<statsVars, menusVars, configVars, scannerVars, mealVars,
                 tierVars, contribVars, helperVars,
                    customVars, historyVars, rangeVars>>

nonStatsVars   == <<menusVars, configVars, scannerVars, mealVars, tierVars,
                    contribVars, helperVars,
                    customVars, historyVars, rangeVars>>
nonMenusVars   == <<statsVars, configVars, scannerVars, mealVars, tierVars,
                    contribVars, helperVars,
                    customVars, historyVars, rangeVars>>
nonScannerVars == <<statsVars, menusVars, configVars, mealVars, tierVars,
                    contribVars, helperVars,
                    customVars, historyVars, rangeVars>>
nonTierVars    == <<statsVars, menusVars, configVars, scannerVars, mealVars,
                    contribVars, helperVars,
                    customVars, historyVars, rangeVars>>
nonContribVars == <<statsVars, menusVars, configVars, scannerVars, mealVars,
                    tierVars, helperVars,
                    customVars, historyVars, rangeVars>>
nonConfigVars  == <<statsVars, menusVars, scannerVars, mealVars, tierVars,
                    contribVars, helperVars,
                    customVars, historyVars, rangeVars>>
nonMealVars    == <<statsVars, menusVars, configVars, scannerVars, tierVars,
                    contribVars, helperVars,
                    customVars, historyVars, rangeVars>>
nonAchVars     == <<statsVars, menusVars, configVars, scannerVars, mealVars,
                    tierVars, contribVars, overviewVars, analyzeVars,
                    targetVars,
                    customVars, historyVars, rangeVars>>
nonOverviewVars == <<statsVars, menusVars, configVars, scannerVars, mealVars,
                     tierVars, contribVars, achVars, analyzeVars, targetVars,
                    customVars, historyVars, rangeVars>>
nonAnalyzeVars == <<statsVars, menusVars, configVars, scannerVars, mealVars,
                    tierVars, contribVars, achVars, overviewVars, targetVars,
                    customVars, historyVars, rangeVars>>
nonTargetVars  == <<statsVars, menusVars, configVars, scannerVars, mealVars,
                    tierVars, contribVars, achVars, overviewVars, analyzeVars,
                    customVars, historyVars, rangeVars>>

nonCustomVars  == <<statsVars, menusVars, configVars, scannerVars, mealVars,
                    tierVars, contribVars, helperVars, historyVars, rangeVars>>
nonMenusCustomVars == <<statsVars, configVars, scannerVars, mealVars,
                        tierVars, contribVars, helperVars, historyVars,
                        rangeVars>>
nonHistoryVars == <<statsVars, menusVars, configVars, scannerVars, mealVars,
                    tierVars, contribVars, helperVars, customVars, rangeVars>>
nonRangeVars   == <<statsVars, menusVars, configVars, scannerVars, mealVars,
                    tierVars, contribVars, helperVars, customVars,
                    historyVars>>

Max(a, b) == IF a >= b THEN a ELSE b
Min(a, b) == IF a <= b THEN a ELSE b

(***************************************************************************)
(* Bounds                                                                  *)
(***************************************************************************)
MaxDays         == 8     \* daily records the server holds for the window
MaxStatsRefetch == 2     \* overlapping statistics refetches
MaxLoads        == 3     \* loadMenus calls issued in one run
MaxStarts       == 2     \* overlapping start-today requests
MaxAlerts       == 2     \* alert dialogs pending on one screen
MaxPctTenths    == 1600  \* largest contribution percentage drawn (160.0%)
MaxProgress     == 10    \* largest achievement progress / max_progress drawn
MaxSeriesDays   == 3     \* daily records drawn for the per-nutrient series
MaxAdds         == 2     \* overlapping addToMealLog requests
MaxTextLen      == 2     \* characters of a custom-menu description
MaxHistoryLoads == 2     \* overlapping loadScanHistory calls

(***************************************************************************)
(* StatisticsScreen: data                                                  *)
(***************************************************************************)
\* the fields of a DailyRecord that the chart series read
SeriesFields == {"calories", "protein_g", "carbs_g", "fats_g"}

\* A DailyRecord as far as the chart reads it.  The records of a window are
\* consecutive days, so the date is the record's day number; each field is
\* either missing or a value that identifies the day.
DayRecordOf(d, missing) ==
    [date |-> d,
     hasCalories |-> "calories" \notin missing,
     calories    |-> IF "calories" \notin missing THEN 100 * (d + 1) ELSE 0,
     hasProtein  |-> "protein_g" \notin missing,
     protein_g   |-> IF "protein_g" \notin missing THEN d + 1 ELSE 0,
     hasCarbs    |-> "carbs_g" \notin missing,
     carbs_g     |-> IF "carbs_g" \notin missing THEN 2 * (d + 1) ELSE 0,
     hasFats     |-> "fats_g" \notin missing,
     fats_g      |-> IF "fats_g" \notin missing THEN 3 * (d + 1) ELSE 0]

\* a record with its macronutrients, with or without calories
DayRecord(d, has) == DayRecordOf(d, IF has THEN {} ELSE {"calories"})

NoStatistics == [defined |-> FALSE, hasBreakdown |-> FALSE,
                 dailyBreakdown |-> <<>>]

WEEKDAYS == <<"Sun", "Mon", "Tue", "Wed", "Thu", "Fri", "Sat">>

\* date.toLocaleDateString("en-US", { weekday: "short" })
WeekdayShort(date) == WEEKDAYS[(date % 7) + 1]

\* day.calories || 0
OrZero(has, v) == IF has /\ v # 0 THEN v ELSE 0

\* slice(0, k) written for slice(-k): keeps the first k records
SliceFirst(s, k) == SubSeq(s, 1, Min(Len(s), k))

\* Array.prototype.slice(-k)
SliceLast(s, k) == SubSeq(s, Max(Len(s) - k, 0) + 1, Len(s))

NullChart == [isNull |-> TRUE,
              line |-> [labels |-> <<>>, data |-> <<>>],
              bar  |-> [labels |-> <<>>, data |-> <<>>]]

\* the useMemo body computing chartData from statistics
chartDataOf(st) ==
    IF ~(st.defined /\ st.hasBreakdown) THEN NullChart
    ELSE LET dailyData    == SliceLast(st.dailyBreakdown, 7)
             labels       == [i \in 1..Len(dailyData) |->
                                 WeekdayShort(dailyData[i].date)]
             caloriesData == [i \in 1..Len(dailyData) |->
                                 OrZero(dailyData[i].hasCalories,
                                        dailyData[i].calories)]
         IN  [isNull |-> FALSE,
              line |-> [labels |-> labels, data |-> caloriesData],
              bar  |-> [labels |-> labels, data |-> caloriesData]]

chartData == chartDataOf(statistics)

\* a series built from the records that carry the field only
seriesOfPresent(dailyData, hasField, field) ==
    LET present == SelectSeq(dailyData, LAMBDA day : day[hasField])
    IN  [i \in 1..Len(present) |-> present[i][field]]

\* the series of one field: dailyData.map((day) => day.field || 0)
seriesOf(dailyData, hasField, field) ==
    [i \in 1..Len(dailyData) |->
        OrZero(dailyData[i][hasField], dailyData[i][field])]

\* caloriesData, proteinData, carbsData and fatsData of the useMemo body
\* (empty where the memo returns null before computing them)
seriesDataOf(st) ==
    LET dailyData == IF st.defined /\ st.hasBreakdown
                     THEN SliceLast(st.dailyBreakdown, 7) ELSE <<>>
    IN  [caloriesData |-> seriesOf(dailyData, "hasCalories", "calories"),
         proteinData  |-> seriesOf(dailyData, "hasProtein", "protein_g"),
         carbsData    |-> seriesOf(dailyData, "hasCarbs", "carbs_g"),
         fatsData     |-> seriesOf(dailyData, "hasFats", "fats_g")]

seriesData == seriesDataOf(statistics)

(***************************************************************************)
(* StatisticsScreen: operations                                            *)
(***************************************************************************)
StatsIdle ==
    /\ dailyLog = <<>>
    /\ statistics = NoStatistics
    /\ statsLoading = FALSE
    /\ statsRefetches = 0
    /\ statsRefreshing = FALSE

StatsInit ==
    /\ dailyLog = <<>>
    /\ statistics = NoStatistics
    /\ statsLoading = TRUE
    /\ statsRefetches = 0
    /\ statsRefreshing = FALSE

\* Remote API: one more day of the window is logged, with or without calories
ServerLogsDay ==
    /\ Len(dailyLog) < MaxDays
    /\ \E has \in BOOLEAN :
          dailyLog' = Append(dailyLog, DayRecord(Len(dailyLog), has))
    /\ UNCHANGED <<statistics, statsLoading, statsRefetches, statsRefreshing>>
    /\ UNCHANGED nonStatsVars

\* the response body a statistics request resolves with
StatsResponses ==
    { [defined |-> TRUE, hasBreakdown |-> TRUE, dailyBreakdown |-> dailyLog],
      [defined |-> TRUE, hasBreakdown |-> FALSE, dailyBreakdown |-> <<>>],
      NoStatistics }

\* useStatistics(selectedTimeRange): the initial query resolves
StatsQueryResolved ==
    /\ statsLoading
    /\ \E resp \in StatsResponses : statistics' = resp
    /\ statsLoading' = FALSE
    /\ UNCHANGED <<dailyLog, statsRefetches, statsRefreshing>>
    /\ UNCHANGED nonStatsVars

\* the screen behind the loading screen is rendered
StatsRendered == ~(statsLoading /\ ~statistics.defined)

\* onRefresh, up to its await
StatsOnRefresh ==
    /\ StatsRendered
    /\ statsRefetches < MaxStatsRefetch
    /\ statsRefreshing' = TRUE
    /\ statsRefetches' = statsRefetches + 1
    /\ UNCHANGED <<dailyLog, statistics, statsLoading>>
    /\ UNCHANGED nonStatsVars

\* onRefresh, after refetch() has resolved
StatsRefetchDone ==
    /\ statsRefetches > 0
    /\ \E resp \in StatsResponses : statistics' = resp
    /\ statsRefetches' = statsRefetches - 1
    /\ statsRefreshing' = FALSE
    /\ UNCHANGED <<dailyLog, statsLoading>>
    /\ UNCHANGED nonStatsVars

StatsNext ==
    \/ ServerLogsDay
    \/ StatsQueryResolved
    \/ StatsOnRefresh
    \/ StatsRefetchDone

\* the fields a drawn record lacks: none, one of them, or all
MissingOptions == {{}, SeriesFields} \cup {{f} : f \in SeriesFields}

\* the server holds a window of records, each lacking some fields
SeriesInit ==
    /\ \E n \in 0..MaxSeriesDays :
          \E missing \in [1..n -> MissingOptions] :
             dailyLog = [i \in 1..n |-> DayRecordOf(i - 1, missing[i])]
    /\ statistics = NoStatistics
    /\ statsLoading = TRUE
    /\ statsRefetches = 0
    /\ statsRefreshing = FALSE

\* the screen over a fixed window of records
SeriesNext ==
    \/ StatsQueryResolved
    \/ StatsOnRefresh
    \/ StatsRefetchDone

(***************************************************************************)
(* StatisticsScreen: the time range and the chart type                     *)
(***************************************************************************)
\* useState("week"), useState("line"), useState(false)
RangeInit ==
    /\ selectedTimeRange = "week"
    /\ selectedChartType = "line"
    /\ showTimeRangeModal = FALSE

\* the keys of TIME_RANGES and of CHART_TYPES
TimeRangeKeys == {"today", "week", "month", "custom"}
ChartTypeKeys == {"line", "bar", "pie"}

\* the range every render hands to the query: useStatistics(selectedTimeRange)
statisticsQueryRange == selectedTimeRange

\* a time-range button that steps to another range
PressTimeRangeButtonSelects ==
    /\ StatsRendered
    /\ \E key \in TimeRangeKeys : selectedTimeRange' = key
    /\ showTimeRangeModal' = TRUE
    /\ UNCHANGED selectedChartType
    /\ UNCHANGED nonRangeVars

\* the time-range button of the header: setShowTimeRangeModal(true); the
\* screen renders no modal for it and never calls setSelectedTimeRange
PressTimeRangeButton ==
    /\ StatsRendered
    /\ showTimeRangeModal' = TRUE
    /\ UNCHANGED <<selectedTimeRange, selectedChartType>>
    /\ UNCHANGED nonRangeVars

\* a chart-type button, rendered with the chart:
\* setSelectedChartType(type.key)
SetChartType ==
    /\ StatsRendered
    /\ ~chartData.isNull
    /\ \E key \in ChartTypeKeys : selectedChartType' = key
    /\ UNCHANGED <<selectedTimeRange, showTimeRangeModal>>
    /\ UNCHANGED nonRangeVars

\* the header and the chart selector over a fixed window of records
RangeNext ==
    \/ StatsQueryResolved
    \/ StatsOnRefresh
    \/ StatsRefetchDone
    \/ PressTimeRangeButton
    \/ SetChartType

(***************************************************************************)
(* RecommendedMenusScreen: data                                            *)
(***************************************************************************)
\* the menu lists the server may hold (a menu is its menu_id)
MenuLists == { <<>>, <<"m1">>, <<"m1", "m2">> }

\* what api.get("/recommended-menus") resolves or rejects with:
\* a rejection, { success: false }, { success: true } without data, or
\* { success: true, data }
LoadOutcomes ==
    { [threw |-> TRUE,  success |-> FALSE, hasData |-> FALSE, data |-> <<>>],
      [threw |-> FALSE, success |-> FALSE, hasData |-> FALSE, data |-> <<>>],
      [threw |-> FALSE, success |-> TRUE,  hasData |-> FALSE, data |-> <<>>] }
    \cup { [threw |-> FALSE, success |-> TRUE, hasData |-> TRUE, data |-> d] :
             d \in MenuLists }

NoLoad == [id |-> 0, threw |-> FALSE, success |-> FALSE, hasData |-> FALSE,
           data |-> <<>>]

\* what api.post("/recommended-menus/:id/start-today") resolves or rejects
\* with
PostOutcomes == { "ok", "successFalse", "threw" }

\* what api.post("/recommended-menus/generate") resolves or rejects with:
\* { success: true }, { success: false } with or without an error text,
\* or a rejection whose Error has a message or an empty one
GenerateOutcomes ==
    { [threw |-> FALSE, success |-> TRUE,  hasText |-> FALSE, text |-> ""],
      [threw |-> FALSE, success |-> FALSE, hasText |-> FALSE, text |-> ""],
      [threw |-> FALSE, success |-> FALSE, hasText |-> TRUE,
       text |-> "No meals match your budget"],
      [threw |-> TRUE,  success |-> FALSE, hasText |-> FALSE, text |-> ""],
      [threw |-> TRUE,  success |-> FALSE, hasText |-> TRUE,
       text |-> "Network Error"] }

NoGenerate == [done |-> FALSE, threw |-> FALSE, success |-> FALSE,
               hasText |-> FALSE, text |-> ""]

\* an Alert.alert dialog: its kind, the handler that raised it, its message
AlertWith(kind, src, msg) == [kind |-> kind, src |-> src, msg |-> msg]

\* a dialog with the fixed message of its kind and handler
Alert(kind, src) == AlertWith(kind, src, "fixed")

RemoveAt(s, i) == SubSeq(s, 1, i - 1) \o SubSeq(s, i + 1, Len(s))

(***************************************************************************)
(* RecommendedMenusScreen: operations                                      *)
(***************************************************************************)
MenusIdle ==
    /\ menus = <<>>
    /\ isLoading = FALSE
    /\ refreshing = FALSE
    /\ isGenerating = FALSE
    /\ showGenerateModal = FALSE
    /\ loadReqs = {}
    /\ nextLoadId = 0
    /\ lastLoad = NoLoad
    /\ genReqs = 0
    /\ startReqs = 0
    /\ lastStart = "none"
    /\ lastGen = NoGenerate
    /\ menuAlerts = <<>>

\* the state after mount: useState defaults, and the mount effect has
\* called loadMenus, which is waiting for api.get
MenusInit ==
    /\ menus = <<>>
    /\ isLoading = TRUE
    /\ refreshing = FALSE
    /\ isGenerating = FALSE
    /\ showGenerateModal = FALSE
    /\ loadReqs = { [id |-> 1, refresh |-> FALSE] }
    /\ nextLoadId = 1
    /\ lastLoad = NoLoad
    /\ genReqs = 0
    /\ startReqs = 0
    /\ lastStart = "none"
    /\ lastGen = NoGenerate
    /\ menuAlerts = <<>>

\* loadMenus, up to its await; refresh tells whether onRefresh awaits it
loadMenusCall(refresh) ==
    /\ nextLoadId < MaxLoads
    /\ nextLoadId' = nextLoadId + 1
    /\ loadReqs' = loadReqs \cup { [id |-> nextLoadId + 1, refresh |-> refresh] }

\* the value loadMenus hands to setMenus for a response
menusAfterLoad(resp, prev) ==
    IF ~resp.threw /\ resp.success
    THEN (IF resp.hasData THEN resp.data ELSE <<>>)   \* response.data.data || []
    ELSE <<>>                                         \* setMenus([])

\* loadMenus with a stale-response guard: only the response of the call
\* issued last is applied
LoadMenusDoneLatestIssued ==
    \E r \in loadReqs : \E resp \in LoadOutcomes :
        /\ loadReqs' = loadReqs \ {r}
        /\ menus' = IF r.id = nextLoadId THEN menusAfterLoad(resp, menus)
                                         ELSE menus
        /\ isLoading' = FALSE
        /\ refreshing' = IF r.refresh THEN FALSE ELSE refreshing
        /\ lastLoad' = [id |-> r.id, threw |-> resp.threw,
                        success |-> resp.success, hasData |-> resp.hasData,
                        data |-> resp.data]
        /\ UNCHANGED <<isGenerating, showGenerateModal, nextLoadId, genReqs,
                       startReqs, lastStart, lastGen, menuAlerts>>
        /\ UNCHANGED nonMenusVars

\* loadMenus after its await (try / catch / finally), followed by the rest
\* of onRefresh when onRefresh awaited this call
LoadMenusDone ==
    \E r \in loadReqs : \E resp \in LoadOutcomes :
        /\ loadReqs' = loadReqs \ {r}
        /\ menus' = menusAfterLoad(resp, menus)
        /\ isLoading' = FALSE
        /\ refreshing' = IF r.refresh THEN FALSE ELSE refreshing
        /\ lastLoad' = [id |-> r.id, threw |-> resp.threw,
                        success |-> resp.success, hasData |-> resp.hasData,
                        data |-> resp.data]
        /\ UNCHANGED <<isGenerating, showGenerateModal, nextLoadId, genReqs,
                       startReqs, lastStart, lastGen, menuAlerts>>
        /\ UNCHANGED nonMenusVars

\* an onRefresh whose loadMenus shows the loading view again
OnRefreshShowsLoading ==
    /\ ~isLoading
    /\ refreshing' = TRUE
    /\ isLoading' = TRUE
    /\ loadMenusCall(TRUE)
    /\ UNCHANGED <<menus, isGenerating, showGenerateModal,
                   lastLoad, genReqs, startReqs, lastStart, lastGen, menuAlerts>>
    /\ UNCHANGED nonMenusVars

\* onRefresh, up to the await inside loadMenus
OnRefresh ==
    /\ ~isLoading
    /\ refreshing' = TRUE
    /\ loadMenusCall(TRUE)
    /\ UNCHANGED <<menus, isLoading, isGenerating, showGenerateModal,
                   lastLoad, genReqs, startReqs, lastStart, lastGen, menuAlerts>>
    /\ UNCHANGED nonMenusVars

\* the header / empty-state buttons: setShowGenerateModal(true)
OpenGenerateModal ==
    /\ ~isLoading
    /\ ~isGenerating
    /\ ~showGenerateModal
    /\ ~showCustomModal
    /\ showGenerateModal' = TRUE
    /\ UNCHANGED <<menus, isLoading, refreshing, isGenerating, loadReqs,
                   nextLoadId, lastLoad, genReqs, startReqs, lastStart, lastGen,
                   menuAlerts>>
    /\ UNCHANGED nonMenusVars

\* the modal's X button, onRequestClose, and Cancel (disabled while generating)
CloseGenerateModal ==
    /\ ~isLoading
    /\ showGenerateModal
    /\ showGenerateModal' = FALSE
    /\ UNCHANGED <<menus, isLoading, refreshing, isGenerating, loadReqs,
                   nextLoadId, lastLoad, genReqs, startReqs, lastStart, lastGen,
                   menuAlerts>>
    /\ UNCHANGED nonMenusVars

\* a dialog can still be raised after every request in flight has raised
\* its own (keeps the list of pending dialogs within MaxAlerts)
AlertSlotFree == Len(menuAlerts) + genReqs + customReqs < MaxAlerts

\* generateMenu, up to its await
GenerateMenu ==
    /\ ~isLoading
    /\ showGenerateModal
    /\ ~isGenerating
    /\ AlertSlotFree
    /\ isGenerating' = TRUE
    /\ genReqs' = genReqs + 1
    /\ UNCHANGED <<menus, isLoading, refreshing, showGenerateModal, loadReqs,
                   nextLoadId, lastLoad, startReqs, lastStart, lastGen, menuAlerts>>
    /\ UNCHANGED nonMenusVars

\* the alert of generateMenu that shows the fixed text for every failure
generateAlertFixedText(out) ==
    IF ~out.threw /\ out.success THEN Alert("success", "generate")
    ELSE AlertWith("error", "generate", "Failed to generate new menu")

\* the alert generateMenu raises for a response: the success alert, or the
\* error alert with error.message || "Failed to generate new menu", where
\* the Error thrown for success=false carries
\* response.data.error || "Failed to generate menu"
generateAlert(out) ==
    IF ~out.threw /\ out.success THEN Alert("success", "generate")
    ELSE IF out.threw
         THEN AlertWith("error", "generate",
                        IF out.hasText THEN out.text
                                       ELSE "Failed to generate new menu")
         ELSE AlertWith("error", "generate",
                        IF out.hasText THEN out.text
                                       ELSE "Failed to generate menu")

\* a generateMenu that resets isGenerating at the end of its try block
\* instead of in finally
GenerateMenuDoneNoFinally ==
    /\ genReqs > 0
    /\ Len(menuAlerts) < MaxAlerts
    /\ \E out \in GenerateOutcomes :
          /\ menuAlerts' = Append(menuAlerts, generateAlert(out))
          /\ lastGen' = [done |-> TRUE, threw |-> out.threw,
                         success |-> out.success, hasText |-> out.hasText,
                         text |-> out.text]
          /\ isGenerating' = IF ~out.threw /\ out.success THEN FALSE
                                                            ELSE isGenerating
    /\ genReqs' = genReqs - 1
    /\ UNCHANGED <<menus, isLoading, refreshing, showGenerateModal, loadReqs,
                   nextLoadId, lastLoad, startReqs, lastStart>>
    /\ UNCHANGED nonMenusVars

\* generateMenu after its await (try / catch / finally)
GenerateMenuDone ==
    /\ genReqs > 0
    /\ Len(menuAlerts) < MaxAlerts
    /\ \E out \in GenerateOutcomes :
          /\ menuAlerts' = Append(menuAlerts, generateAlert(out))
          /\ lastGen' = [done |-> TRUE, threw |-> out.threw,
                         success |-> out.success, hasText |-> out.hasText,
                         text |-> out.text]
    /\ genReqs' = genReqs - 1
    /\ isGenerating' = FALSE
    /\ UNCHANGED <<menus, isLoading, refreshing, showGenerateModal, loadReqs,
                   nextLoadId, lastLoad, startReqs, lastStart>>
    /\ UNCHANGED nonMenusVars

\* the OK button of the generate success alert: close the modal, loadMenus()
ConfirmGenerated ==
    \E i \in 1..Len(menuAlerts) :
        /\ menuAlerts[i] = Alert("success", "generate")
        /\ menuAlerts' = RemoveAt(menuAlerts, i)
        /\ showGenerateModal' = FALSE
        /\ loadMenusCall(FALSE)
        /\ UNCHANGED <<menus, isLoading, refreshing, isGenerating, lastLoad,
                       genReqs, startReqs, lastStart, lastGen>>
        /\ UNCHANGED nonMenusVars

\* the default OK button of an alert raised without buttons
DismissMenuAlert ==
    \E i \in 1..Len(menuAlerts) :
        /\ menuAlerts[i] # Alert("success", "generate")
        /\ menuAlerts[i] # Alert("success", "custom")
        /\ menuAlerts' = RemoveAt(menuAlerts, i)
        /\ UNCHANGED <<menus, isLoading, refreshing, isGenerating,
                       showGenerateModal, loadReqs, nextLoadId, lastLoad,
                       genReqs, startReqs, lastStart, lastGen>>
        /\ UNCHANGED nonMenusVars

\* handleStartMenu, up to its await (MenuCard.onStart of a listed menu)
HandleStartMenu ==
    /\ ~isLoading
    /\ menus # <<>>
    /\ startReqs < MaxStarts
    /\ startReqs' = startReqs + 1
    /\ UNCHANGED <<menus, isLoading, refreshing, isGenerating,
                   showGenerateModal, loadReqs, nextLoadId, lastLoad, genReqs,
                   lastStart, lastGen, menuAlerts>>
    /\ UNCHANGED nonMenusVars

\* the alerts handleStartMenu raises for a response
startAlerts(out) ==
    IF out = "ok" THEN << Alert("success", "start") >>
    ELSE IF out = "threw" THEN << Alert("error", "start") >>
    ELSE << >>                       \* success=false: no branch of the code

\* handleStartMenu after its await (try / catch)
HandleStartMenuDone ==
    /\ startReqs > 0
    /\ \E out \in PostOutcomes :
          /\ Len(menuAlerts) + Len(startAlerts(out)) <= MaxAlerts
          /\ menuAlerts' = menuAlerts \o startAlerts(out)
          /\ lastStart' = out
    /\ startReqs' = startReqs - 1
    /\ UNCHANGED <<menus, isLoading, refreshing, isGenerating,
                   showGenerateModal, loadReqs, nextLoadId, lastLoad, genReqs,
                   lastGen>>
    /\ UNCHANGED nonMenusVars

\* loading, refreshing and generating menus
MenusNext ==
    \/ LoadMenusDone
    \/ OnRefresh
    \/ OpenGenerateModal
    \/ CloseGenerateModal
    \/ GenerateMenu
    \/ GenerateMenuDone
    \/ ConfirmGenerated
    \/ DismissMenuAlert

\* loading menus and starting one of them
StartNext ==
    \/ LoadMenusDone
    \/ OnRefresh
    \/ HandleStartMenu
    \/ HandleStartMenuDone
    \/ DismissMenuAlert

(***************************************************************************)
(* RecommendedMenusScreen: the configuration of the generate modal         *)
(***************************************************************************)
\* useState default of generateConfig
DefaultGenerateConfig ==
    [days |-> 7, mealsPerDay |-> "3_main", mealChangeFrequency |-> "daily",
     includeLeftovers |-> FALSE, sameMealTimes |-> TRUE, budget |-> 200]

\* a days selector that also offers a single day
DaysOptionsWithOne == {1, 3, 7, 14}

\* the options the modal renders
DaysOptions        == {3, 7, 14}
MealsPerDayOptions == {"3_main", "3_plus_2_snacks", "2_plus_1_intermediate"}
BudgetOptions      == {100, 150, 200, 300}

ConfigInit ==
    /\ generateConfig = DefaultGenerateConfig
    /\ lastConfigAction = "none"

\* the generate modal is rendered (its controls can be pressed)
GenerateModalShown == ~isLoading /\ showGenerateModal

\* body of POST /recommended-menus/generate, read when generateMenu runs
generateMenuBody == generateConfig

\* a day option: setGenerateConfig(prev => ({ ...prev, days }))
ChooseDays ==
    /\ GenerateModalShown
    /\ \E days \in DaysOptions :
          generateConfig' = [generateConfig EXCEPT !.days = days]
    /\ lastConfigAction' = "days"
    /\ UNCHANGED nonConfigVars

\* a meals option: setGenerateConfig(prev => ({ ...prev, mealsPerDay }))
ChooseMealsPerDay ==
    /\ GenerateModalShown
    /\ \E key \in MealsPerDayOptions :
          generateConfig' = [generateConfig EXCEPT !.mealsPerDay = key]
    /\ lastConfigAction' = "mealsPerDay"
    /\ UNCHANGED nonConfigVars

\* a budget option: setGenerateConfig(prev => ({ ...prev, budget }))
ChooseBudget ==
    /\ GenerateModalShown
    /\ \E budget \in BudgetOptions :
          generateConfig' = [generateConfig EXCEPT !.budget = budget]
    /\ lastConfigAction' = "budget"
    /\ UNCHANGED nonConfigVars

\* a toggle that spreads the useState default instead of prev
toggledFromDefault(prev, field) ==
    [DefaultGenerateConfig EXCEPT ![field] = ~prev[field]]

\* prev => ({ ...prev, field: !prev.field })
toggled(prev, field) == [prev EXCEPT ![field] = ~prev[field]]

\* the leftovers toggle: includeLeftovers: !prev.includeLeftovers
ToggleIncludeLeftovers ==
    /\ GenerateModalShown
    /\ generateConfig' = toggled(generateConfig, "includeLeftovers")
    /\ lastConfigAction' = "includeLeftovers"
    /\ UNCHANGED nonConfigVars

\* the meal-times toggle: sameMealTimes: !prev.sameMealTimes
ToggleSameMealTimes ==
    /\ GenerateModalShown
    /\ generateConfig' = toggled(generateConfig, "sameMealTimes")
    /\ lastConfigAction' = "sameMealTimes"
    /\ UNCHANGED nonConfigVars

\* the screen after the mount's loadMenus has completed with one menu
MenusLoaded ==
    /\ menus = <<"m1">>
    /\ isLoading = FALSE
    /\ refreshing = FALSE
    /\ isGenerating = FALSE
    /\ showGenerateModal = FALSE
    /\ loadReqs = {}
    /\ nextLoadId = 1
    /\ lastLoad = [id |-> 1, threw |-> FALSE, success |-> TRUE,
                   hasData |-> TRUE, data |-> <<"m1">>]
    /\ genReqs = 0
    /\ startReqs = 0
    /\ lastStart = "none"
    /\ lastGen = NoGenerate
    /\ menuAlerts = <<>>

\* configuring a menu and sending generate requests, on the loaded screen
ConfigNext ==
    \/ OpenGenerateModal
    \/ CloseGenerateModal
    \/ ChooseDays
    \/ ChooseMealsPerDay
    \/ ChooseBudget
    \/ ToggleIncludeLeftovers
    \/ ToggleSameMealTimes
    \/ GenerateMenu
    \/ GenerateMenuDone
    \/ DismissMenuAlert

(***************************************************************************)
(* RecommendedMenusScreen: the custom modal and generateCustomMenu         *)
(* (a text is the sequence of its characters)                              *)
(***************************************************************************)
\* the characters typed into the description field: a blank and a letter
TextChars == {" ", "a"}

RECURSIVE TextsOfLen(_)
TextsOfLen(n) ==
    IF n = 0 THEN { <<>> }
    ELSE { Append(t, c) : t \in TextsOfLen(n - 1), c \in TextChars }

\* the descriptions the user can have typed
CustomTexts == UNION { TextsOfLen(n) : n \in 0..MaxTextLen }

\* String.prototype.trimStart
RECURSIVE trimStart(_)
trimStart(t) ==
    IF t # <<>> /\ Head(t) = " " THEN trimStart(Tail(t)) ELSE t

\* String.prototype.trimEnd
RECURSIVE trimEnd(_)
trimEnd(t) ==
    IF t # <<>> /\ t[Len(t)] = " "
    THEN trimEnd(SubSeq(t, 1, Len(t) - 1)) ELSE t

\* String.prototype.trim
trim(t) == trimEnd(trimStart(t))

\* !customRequest.trim(): the empty string is falsy
isBlank(t) == trim(t) = <<>>

\* useState(false) and useState("") of the custom modal, no request sent
CustomInit ==
    /\ showCustomModal = FALSE
    /\ customRequest = <<>>
    /\ customReqs = 0

\* the custom modal is on screen (the loading view renders no modal)
CustomModalShown == ~isLoading /\ showCustomModal

\* a request body that carries the description as it was typed
generateCustomBodyUntrimmed ==
    [days |-> generateConfig.days,
     mealsPerDay |-> generateConfig.mealsPerDay,
     mealChangeFrequency |-> generateConfig.mealChangeFrequency,
     includeLeftovers |-> generateConfig.includeLeftovers,
     sameMealTimes |-> generateConfig.sameMealTimes,
     budget |-> generateConfig.budget,
     customRequest |-> customRequest]

\* the body of the generate-custom request:
\* { ...generateConfig, customRequest: customRequest.trim() }
generateCustomBody ==
    [days |-> generateConfig.days,
     mealsPerDay |-> generateConfig.mealsPerDay,
     mealChangeFrequency |-> generateConfig.mealChangeFrequency,
     includeLeftovers |-> generateConfig.includeLeftovers,
     sameMealTimes |-> generateConfig.sameMealTimes,
     budget |-> generateConfig.budget,
     customRequest |-> trim(customRequest)]

\* the header's custom button (disabled while generating)
OpenCustomModal ==
    /\ ~isLoading
    /\ ~isGenerating
    /\ ~showGenerateModal
    /\ ~showCustomModal
    /\ showCustomModal' = TRUE
    /\ UNCHANGED <<customRequest, customReqs>>
    /\ UNCHANGED nonCustomVars

\* the X button and onRequestClose of the custom modal (never disabled)
CloseCustomModal ==
    /\ CustomModalShown
    /\ showCustomModal' = FALSE
    /\ UNCHANGED <<customRequest, customReqs>>
    /\ UNCHANGED nonCustomVars

\* the description field: onChangeText={setCustomRequest}
SetCustomRequest ==
    /\ CustomModalShown
    /\ \E t \in CustomTexts : customRequest' = t
    /\ UNCHANGED <<showCustomModal, customReqs>>
    /\ UNCHANGED nonCustomVars

\* a Create button that stays enabled while a generation is in flight
GenerateCustomMenuNotDisabled ==
    /\ CustomModalShown
    /\ ~isBlank(customRequest)
    /\ AlertSlotFree
    /\ isGenerating' = TRUE
    /\ customReqs' = customReqs + 1
    /\ UNCHANGED <<menus, isLoading, refreshing, showGenerateModal, loadReqs,
                   nextLoadId, lastLoad, genReqs, startReqs, lastStart,
                   lastGen, menuAlerts>>
    /\ UNCHANGED <<showCustomModal, customRequest>>
    /\ UNCHANGED nonMenusCustomVars

\* generateCustomMenu with a description, up to its await; the Create
\* button is disabled while generating or while the description is blank
GenerateCustomMenu ==
    /\ CustomModalShown
    /\ ~isGenerating
    /\ ~isBlank(customRequest)
    /\ AlertSlotFree
    /\ isGenerating' = TRUE
    /\ customReqs' = customReqs + 1
    /\ UNCHANGED <<menus, isLoading, refreshing, showGenerateModal, loadReqs,
                   nextLoadId, lastLoad, genReqs, startReqs, lastStart,
                   lastGen, menuAlerts>>
    /\ UNCHANGED <<showCustomModal, customRequest>>
    /\ UNCHANGED nonMenusCustomVars

\* generateCustomMenu invoked with a blank description: the early return
GenerateCustomMenuBlank ==
    /\ CustomModalShown
    /\ isBlank(customRequest)
    /\ AlertSlotFree
    /\ menuAlerts' = Append(menuAlerts,
           AlertWith("error", "custom",
                     "Please enter a description for your custom menu"))
    /\ UNCHANGED <<menus, isLoading, refreshing, isGenerating,
                   showGenerateModal, loadReqs, nextLoadId, lastLoad, genReqs,
                   startReqs, lastStart, lastGen>>
    /\ UNCHANGED customVars
    /\ UNCHANGED nonMenusCustomVars

\* the alert generateCustomMenu raises for a response: the success alert,
\* or the error alert with error.message || "Failed to generate custom
\* menu", where the Error thrown for success=false carries
\* response.data.error || "Failed to generate custom menu"
customAlert(out) ==
    IF ~out.threw /\ out.success THEN Alert("success", "custom")
    ELSE AlertWith("error", "custom",
                   IF out.hasText THEN out.text
                                  ELSE "Failed to generate custom menu")

\* generateCustomMenu after its await (try / catch / finally)
GenerateCustomMenuDone ==
    /\ customReqs > 0
    /\ Len(menuAlerts) < MaxAlerts
    /\ \E out \in GenerateOutcomes :
          /\ menuAlerts' = Append(menuAlerts, customAlert(out))
          /\ lastGen' = [done |-> TRUE, threw |-> out.threw,
                         success |-> out.success, hasText |-> out.hasText,
                         text |-> out.text]
    /\ customReqs' = customReqs - 1
    /\ isGenerating' = FALSE
    /\ UNCHANGED <<menus, isLoading, refreshing, showGenerateModal, loadReqs,
                   nextLoadId, lastLoad, genReqs, startReqs, lastStart>>
    /\ UNCHANGED <<showCustomModal, customRequest>>
    /\ UNCHANGED nonMenusCustomVars

\* the OK button of the custom success alert: close the modal, clear the
\* description, loadMenus()
ConfirmCustomGenerated ==
    \E i \in 1..Len(menuAlerts) :
        /\ menuAlerts[i] = Alert("success", "custom")
        /\ menuAlerts' = RemoveAt(menuAlerts, i)
        /\ showCustomModal' = FALSE
        /\ customRequest' = <<>>
        /\ loadMenusCall(FALSE)
        /\ UNCHANGED <<menus, isLoading, refreshing, isGenerating,
                       showGenerateModal, lastLoad, genReqs, startReqs,
                       lastStart, lastGen>>
        /\ UNCHANGED customReqs
        /\ UNCHANGED nonMenusCustomVars

\* the custom flow on the loaded screen, the configuration it sends being
\* changed in the generate modal (the reloads it issues stay pending)
CustomNext ==
    \/ OpenCustomModal
    \/ CloseCustomModal
    \/ SetCustomRequest
    \/ GenerateCustomMenu
    \/ GenerateCustomMenuBlank
    \/ GenerateCustomMenuDone
    \/ ConfirmCustomGenerated
    \/ OpenGenerateModal
    \/ CloseGenerateModal
    \/ ToggleSameMealTimes
    \/ DismissMenuAlert

\* both generation flows on the loaded screen, up to their alerts
GenerationNext ==
    \/ OpenGenerateModal
    \/ CloseGenerateModal
    \/ GenerateMenu
    \/ GenerateMenuDone
    \/ OpenCustomModal
    \/ CloseCustomModal
    \/ SetCustomRequest
    \/ GenerateCustomMenu
    \/ GenerateCustomMenuDone
    \/ DismissMenuAlert

(***************************************************************************)
(* FoodScannerScreen: data                                                 *)
(***************************************************************************)
\* the user's daily targets the server analyses a product against
UserTargets == [calories |-> 2000, protein |-> 100]

\* the quantity, in grams, the server analyses a scanned product for
\* (the scan request carries none: "Daily Contribution (100g)")
AnalysisQuantity == 100

\* a contribution that reads a missing target as fully used (100.0%)
contributionPercentFull(per100g, quantityGrams, target) ==
    IF target = 0 THEN 1000
    ELSE (per100g * quantityGrams * 10) \div target

\* daily_contribution.<nutrient>_percent in tenths of 1%:
\* (amount per 100 g * quantityGrams / 100) / target * 100, and 0 for a
\* target of 0
contributionPercent(per100g, quantityGrams, target) ==
    IF target = 0 THEN 0
    ELSE (per100g * quantityGrams * 10) \div target

\* nutrition_per_100g of the products a scan may find
ProductNutrition ==
    [p \in {"p1", "p2"} |->
        IF p = "p1" THEN [calories |-> 200, protein |-> 20]
                    ELSE [calories |-> 400, protein |-> 50]]

\* user_analysis.daily_contribution as the server computes it for a product
dailyContributionOf(p) ==
    [calories_percent |->
         contributionPercent(ProductNutrition[p].calories, AnalysisQuantity,
                             UserTargets.calories),
     protein_percent |->
         contributionPercent(ProductNutrition[p].protein, AnalysisQuantity,
                             UserTargets.protein)]

NoScannedData ==
    [has |-> FALSE, product |-> "none",
     nutrition_per_100g |-> [calories |-> 0, protein |-> 0],
     daily_contribution |-> [calories_percent |-> 0, protein_percent |-> 0]]

\* the { product, user_analysis } bodies a successful scan may carry
ScanResults ==
    { [has |-> TRUE, product |-> p,
       nutrition_per_100g |-> ProductNutrition[p],
       daily_contribution |-> dailyContributionOf(p)] : p \in {"p1", "p2"} }

\* what scanBarcode / scanProductImage resolves or rejects with
ScanOutcomes == { "success", "successFalse", "threw" }

NoScan == [kind |-> "none", outcome |-> "none", abandoned |-> FALSE]

(***************************************************************************)
(* FoodScannerScreen: operations                                           *)
(***************************************************************************)
ScannerInit ==
    /\ showCamera = FALSE
    /\ scanMode = "barcode"
    /\ scannedData = NoScannedData
    /\ isScanning = FALSE
    /\ scanReqs = <<>>
    /\ lastScan = NoScan
    /\ scanAlerts = <<>>

\* home view: the "Scan Barcode" and "Scan Label" options
OpenCamera ==
    /\ ~showCamera
    /\ ~scannedData.has
    /\ \E mode \in {"barcode", "image"} : scanMode' = mode
    /\ showCamera' = TRUE
    /\ UNCHANGED <<scannedData, isScanning, scanReqs, lastScan, scanAlerts>>
    /\ UNCHANGED nonScannerVars

\* camera view: the X button, setShowCamera(false).  Every scan still in
\* flight is thereby abandoned by the user (recorded on the request).
CloseCamera ==
    /\ showCamera
    /\ showCamera' = FALSE
    /\ scanReqs' = [i \in 1..Len(scanReqs) |->
                       [scanReqs[i] EXCEPT !.abandoned = TRUE]]
    /\ UNCHANGED <<scanMode, scannedData, isScanning, lastScan, scanAlerts>>
    /\ UNCHANGED nonScannerVars

\* camera view: the Barcode / Image toggle
SetScanMode ==
    /\ showCamera
    /\ \E mode \in {"barcode", "image"} :
          /\ mode # scanMode
          /\ scanMode' = mode
    /\ UNCHANGED <<showCamera, scannedData, isScanning, scanReqs, lastScan,
                   scanAlerts>>
    /\ UNCHANGED nonScannerVars

\* a handleBarCodeScanned without its isScanning check
HandleBarCodeScannedUnchecked ==
    /\ showCamera
    /\ scanMode = "barcode"
    /\ Len(scanReqs) < MaxAlerts
    /\ isScanning' = TRUE
    /\ scanReqs' = Append(scanReqs, [kind |-> "barcode", abandoned |-> FALSE])
    /\ UNCHANGED <<showCamera, scanMode, scannedData, lastScan, scanAlerts>>
    /\ UNCHANGED nonScannerVars

\* handleBarCodeScanned, up to its await (the camera reports a barcode)
HandleBarCodeScanned ==
    /\ showCamera
    /\ scanMode = "barcode"
    /\ ~isScanning
    /\ isScanning' = TRUE
    /\ scanReqs' = Append(scanReqs, [kind |-> "barcode", abandoned |-> FALSE])
    /\ UNCHANGED <<showCamera, scanMode, scannedData, lastScan, scanAlerts>>
    /\ UNCHANGED nonScannerVars

\* handleBarCodeScanned while a scan is in flight:
\* if (isScanning) return
HandleBarCodeScannedIgnored ==
    /\ showCamera
    /\ scanMode = "barcode"
    /\ isScanning
    /\ UNCHANGED vars

\* takePicture with a picked image: handleImageScan up to its await
TakePicture ==
    /\ showCamera
    /\ scanMode = "image"
    /\ ~isScanning
    /\ isScanning' = TRUE
    /\ scanReqs' = Append(scanReqs, [kind |-> "image", abandoned |-> FALSE])
    /\ UNCHANGED <<showCamera, scanMode, scannedData, lastScan, scanAlerts>>
    /\ UNCHANGED nonScannerVars

\* takePicture when the image picker rejects
TakePictureFailed ==
    /\ showCamera
    /\ scanMode = "image"
    /\ ~isScanning
    /\ Len(scanAlerts) < MaxAlerts
    /\ scanAlerts' = Append(scanAlerts, Alert("error", "capture"))
    /\ UNCHANGED <<showCamera, scanMode, scannedData, isScanning, scanReqs,
                   lastScan>>
    /\ UNCHANGED nonScannerVars

\* a scan handler without its else branch: success=false raises nothing
scanFailureAlertsNoElse(kind, out) ==
    IF out = "threw" THEN << Alert("error", kind) >> ELSE << >>

\* the alerts a scan handler raises for a response
scanFailureAlerts(kind, out) ==
    IF out = "success" THEN << >>
    ELSE << Alert("error", kind) >>

\* the rest of handleBarCodeScanned / handleImageScan for a successful scan
ScanSucceeded ==
    \E i \in 1..Len(scanReqs) : \E d \in ScanResults :
        /\ scannedData' = d
        /\ showCamera' = FALSE
        /\ isScanning' = FALSE
        /\ scanReqs' = RemoveAt(scanReqs, i)
        /\ lastScan' = [kind |-> scanReqs[i].kind, outcome |-> "success",
                        abandoned |-> scanReqs[i].abandoned]
        /\ UNCHANGED <<scanMode, scanAlerts>>
        /\ UNCHANGED nonScannerVars

\* the rest of handleBarCodeScanned / handleImageScan for a failed scan:
\* the else branch (success=false) or the catch branch, then finally
ScanFailed ==
    \E i \in 1..Len(scanReqs) : \E out \in ScanOutcomes \ {"success"} :
        /\ Len(scanAlerts) < MaxAlerts
        /\ scanAlerts' = scanAlerts \o scanFailureAlerts(scanReqs[i].kind, out)
        /\ isScanning' = FALSE
        /\ scanReqs' = RemoveAt(scanReqs, i)
        /\ lastScan' = [kind |-> scanReqs[i].kind, outcome |-> out,
                        abandoned |-> scanReqs[i].abandoned]
        /\ UNCHANGED <<showCamera, scanMode, scannedData>>
        /\ UNCHANGED nonScannerVars

\* result view: the X button and "Scan Another", setScannedData(null)
CloseResult ==
    /\ ~showCamera
    /\ scannedData.has
    /\ scannedData' = NoScannedData
    /\ UNCHANGED <<showCamera, scanMode, isScanning, scanReqs, lastScan,
                   scanAlerts>>
    /\ UNCHANGED nonScannerVars

\* the default OK button of an alert
DismissScanAlert ==
    \E i \in 1..Len(scanAlerts) :
        /\ scanAlerts' = RemoveAt(scanAlerts, i)
        /\ UNCHANGED <<showCamera, scanMode, scannedData, isScanning,
                       scanReqs, lastScan>>
        /\ UNCHANGED nonScannerVars

ScannerNext ==
    \/ OpenCamera
    \/ CloseCamera
    \/ SetScanMode
    \/ HandleBarCodeScanned
    \/ HandleBarCodeScannedIgnored
    \/ TakePicture
    \/ TakePictureFailed
    \/ ScanSucceeded
    \/ ScanFailed
    \/ CloseResult
    \/ DismissScanAlert

(***************************************************************************)
(* FoodScannerScreen: the pure display helpers                             *)
(***************************************************************************)
\* the first threshold compared with > instead of >=
getCompatibilityColorStrict(score) ==
    IF score > 80 THEN "#10b981"
    ELSE IF score >= 60 THEN "#f59e0b"
    ELSE IF score >= 40 THEN "#ef4444"
    ELSE "#dc2626"

getCompatibilityColor(score) ==
    IF score >= 80 THEN "#10b981"
    ELSE IF score >= 60 THEN "#f59e0b"
    ELSE IF score >= 40 THEN "#ef4444"
    ELSE "#dc2626"

getCompatibilityIcon(score) ==
    IF score >= 80 THEN [icon |-> "CheckCircle", color |-> "#10b981"]
    ELSE IF score >= 60 THEN [icon |-> "Info", color |-> "#f59e0b"]
    ELSE [icon |-> "AlertTriangle", color |-> "#ef4444"]

NoTierView == [shown |-> FALSE, color |-> "", icon |-> "", iconColor |-> ""]

TierInit ==
    /\ tierScore \in 0..100
    /\ tierView = NoTierView

TierIdle ==
    /\ tierScore = 0
    /\ tierView = NoTierView

\* the compatibility card of the result view is rendered for the score
RenderCompatibility ==
    /\ ~tierView.shown
    /\ tierView' = [shown |-> TRUE,
                    color |-> getCompatibilityColor(tierScore),
                    icon |-> getCompatibilityIcon(tierScore).icon,
                    iconColor |-> getCompatibilityIcon(tierScore).color]
    /\ UNCHANGED tierScore
    /\ UNCHANGED nonTierVars

\* another scan result arrives with its own score
NextScore ==
    /\ tierView.shown
    /\ \E s \in 0..100 : tierScore' = s
    /\ tierView' = NoTierView
    /\ UNCHANGED nonTierVars

TierNext ==
    \/ RenderCompatibility
    \/ NextScore

\* Math.round on a number given in tenths (round half up)
MathRound(tenths) == (tenths + 5) \div 10

\* width: `${Math.min(percent, 100)}%`, in tenths of 1%
contributionWidth(pct) == Min(pct, 1000)

\* the text computed from the clamped percentage
contributionTextClamped(pct) == MathRound(Min(pct, 1000))

\* {Math.round(percent)}%
contributionText(pct) == MathRound(pct)

NoContribView == [shown |-> FALSE, width |-> 0, text |-> 0]

ContribInit ==
    /\ contribPct \in 0..MaxPctTenths
    /\ contribView = NoContribView

ContribIdle ==
    /\ contribPct = 0
    /\ contribView = NoContribView

\* a contribution item of the result view is rendered for the percentage
RenderContribution ==
    /\ ~contribView.shown
    /\ contribView' = [shown |-> TRUE,
                       width |-> contributionWidth(contribPct),
                       text |-> contributionText(contribPct)]
    /\ UNCHANGED contribPct
    /\ UNCHANGED nonContribVars

\* the result view is closed again
HideContribution ==
    /\ contribView.shown
    /\ contribView' = NoContribView
    /\ UNCHANGED contribPct
    /\ UNCHANGED nonContribVars

ContribNext ==
    \/ RenderContribution
    \/ HideContribution

(***************************************************************************)
(* FoodScannerScreen: the add-to-meal modal                                *)
(***************************************************************************)
MealTimings == {"BREAKFAST", "LUNCH", "DINNER", "SNACK"}

\* what foodScannerAPI.addToMealLog resolves or rejects with
AddOutcomes == { "success", "successFalse", "threw" }

\* texts typed into the quantity field
TypedTexts == {"", "abc", "0", "250", "1000", "1010", "9999", "-20"}

\* parseInt(text): a number, or NaN
parseInt(text) ==
    CASE text = "0"    -> [isNaN |-> FALSE, n |-> 0]
      [] text = "250"  -> [isNaN |-> FALSE, n |-> 250]
      [] text = "1000" -> [isNaN |-> FALSE, n |-> 1000]
      [] text = "1010" -> [isNaN |-> FALSE, n |-> 1010]
      [] text = "9999" -> [isNaN |-> FALSE, n |-> 9999]
      [] text = "-20"  -> [isNaN |-> FALSE, n |-> 0 - 20]
      [] OTHER         -> [isNaN |-> TRUE, n |-> 0]

\* parseInt(text) || 0
parseIntOrZero(text) == IF parseInt(text).isNaN THEN 0 ELSE parseInt(text).n

\* a typed quantity kept without its upper limit
typedQuantityNoLimit(num) == Max(0, num)

\* Math.max(0, Math.min(1000, num))
typedQuantity(num) == Max(0, Min(1000, num))

\* the result view is rendered: not the camera view, and a scan is held
ResultShown == ~showCamera /\ scannedData.has

\* the add-to-meal modal is visible
AddToMealShown == ResultShown /\ showAddToMealModal

\* the result card "Daily Contribution (100g)": bar width and text of the
\* calories and the protein percentage of the scan's analysis
shownContribution ==
    [caloriesWidth |->
         contributionWidth(scannedData.daily_contribution.calories_percent),
     caloriesText  |->
         contributionText(scannedData.daily_contribution.calories_percent),
     proteinWidth  |->
         contributionWidth(scannedData.daily_contribution.protein_percent),
     proteinText   |->
         contributionText(scannedData.daily_contribution.protein_percent)]

\* JavaScript Math.round of num / den for num >= 0, den > 0
RoundDiv(num, den) == (2 * num + den) \div (2 * den)

\* the modal's "Nutrition for {quantity}g":
\* Math.round((product.nutrition_per_100g.X * quantity) / 100)
calculatedNutrition ==
    [calories |-> RoundDiv(scannedData.nutrition_per_100g.calories * quantity,
                           100),
     protein  |-> RoundDiv(scannedData.nutrition_per_100g.protein * quantity,
                           100)]

\* the arguments of foodScannerAPI.addToMealLog, read when the handler runs
addToMealLogBody ==
    [product |-> scannedData.product, quantity |-> quantity,
     mealTiming |-> mealTiming]

NoAdd == "none"

MealIdle ==
    /\ showAddToMealModal = FALSE
    /\ quantity = 100
    /\ mealTiming = "SNACK"
    /\ addReqs = 0
    /\ lastAdd = NoAdd

\* the scanner after a barcode scan has succeeded: the result view of one
\* of the products, the camera closed, nothing in flight
ScanDisplayed ==
    /\ showCamera = FALSE
    /\ scanMode = "barcode"
    /\ scannedData \in ScanResults
    /\ isScanning = FALSE
    /\ scanReqs = <<>>
    /\ lastScan = [kind |-> "barcode", outcome |-> "success",
                   abandoned |-> FALSE]
    /\ scanAlerts = <<>>

\* result view: the "Add to Meal" button
OpenAddToMeal ==
    /\ ResultShown
    /\ ~showAddToMealModal
    /\ showAddToMealModal' = TRUE
    /\ UNCHANGED <<quantity, mealTiming, addReqs, lastAdd>>
    /\ UNCHANGED nonMealVars

\* the modal's X button, Cancel and onRequestClose
CloseAddToMeal ==
    /\ AddToMealShown
    /\ showAddToMealModal' = FALSE
    /\ UNCHANGED <<quantity, mealTiming, addReqs, lastAdd>>
    /\ UNCHANGED nonMealVars

\* the quantity the minus button sets: Math.max(10, quantity - 10)
quantityAfterMinus(q) == Max(10, q - 10)

\* the quantity the plus button sets: Math.min(1000, quantity + 10)
quantityAfterPlus(q) == Min(1000, q + 10)

\* the minus button: setQuantity(Math.max(10, quantity - 10))
QuantityMinus ==
    /\ AddToMealShown
    /\ quantity' = quantityAfterMinus(quantity)
    /\ UNCHANGED <<showAddToMealModal, mealTiming, addReqs, lastAdd>>
    /\ UNCHANGED nonMealVars

\* the plus button: setQuantity(Math.min(1000, quantity + 10))
QuantityPlus ==
    /\ AddToMealShown
    /\ quantity' = quantityAfterPlus(quantity)
    /\ UNCHANGED <<showAddToMealModal, mealTiming, addReqs, lastAdd>>
    /\ UNCHANGED nonMealVars

\* the quantity field: onChangeText
QuantityTyped ==
    /\ AddToMealShown
    /\ \E text \in TypedTexts :
          quantity' = typedQuantity(parseIntOrZero(text))
    /\ UNCHANGED <<showAddToMealModal, mealTiming, addReqs, lastAdd>>
    /\ UNCHANGED nonMealVars

\* a meal-timing option: setMealTiming(timing)
SetMealTiming ==
    /\ AddToMealShown
    /\ \E timing \in MealTimings : mealTiming' = timing
    /\ UNCHANGED <<showAddToMealModal, quantity, addReqs, lastAdd>>
    /\ UNCHANGED nonMealVars

\* addToMealLog ("Add to Log"), up to its await
AddToMealLog ==
    /\ AddToMealShown
    /\ scannedData.has
    /\ addReqs < MaxAdds
    /\ addReqs' = addReqs + 1
    /\ UNCHANGED <<showAddToMealModal, quantity, mealTiming, lastAdd>>
    /\ UNCHANGED nonMealVars

\* addToMealLog run while no scan is held: if (!scannedData) return
AddToMealLogNoScan ==
    /\ ~scannedData.has
    /\ lastAdd' = "noScan"
    /\ UNCHANGED <<showAddToMealModal, quantity, mealTiming, addReqs>>
    /\ UNCHANGED nonMealVars

\* the alerts addToMealLog raises for a response
addAlerts(out) ==
    IF out = "success" THEN << Alert("success", "add") >>
    ELSE << Alert("error", "add") >>

\* a handler that closes the modal whatever the response
modalAfterAddAlwaysClosed(out, shown) == FALSE

\* showAddToMealModal after a response: setShowAddToMealModal(false) in the
\* success branch only
modalAfterAdd(out, shown) == IF out = "success" THEN FALSE ELSE shown

\* addToMealLog after its await (try / catch)
AddToMealLogDone ==
    /\ addReqs > 0
    /\ Len(scanAlerts) < MaxAlerts
    /\ \E out \in AddOutcomes :
          /\ scanAlerts' = scanAlerts \o addAlerts(out)
          /\ showAddToMealModal' = modalAfterAdd(out, showAddToMealModal)
          /\ scannedData' =
                 IF out = "success" THEN NoScannedData ELSE scannedData
          /\ lastAdd' = out
    /\ addReqs' = addReqs - 1
    /\ UNCHANGED <<quantity, mealTiming>>
    /\ UNCHANGED <<showCamera, scanMode, isScanning, scanReqs, lastScan>>
    /\ UNCHANGED <<statsVars, menusVars, configVars, tierVars, contribVars,
                   helperVars, customVars, historyVars, rangeVars>>

\* the add-to-meal modal over a displayed scan
MealNext ==
    \/ OpenAddToMeal
    \/ CloseAddToMeal
    \/ QuantityMinus
    \/ QuantityPlus
    \/ QuantityTyped
    \/ SetMealTiming
    \/ AddToMealLog
    \/ AddToMealLogNoScan
    \/ AddToMealLogDone
    \/ DismissScanAlert

(***************************************************************************)
(* FoodScannerScreen: the scan history                                     *)
(***************************************************************************)
\* no loadScanHistory response yet
NoHistory == [done |-> FALSE, threw |-> FALSE, success |-> FALSE,
              hasData |-> FALSE, data |-> <<>>]

\* useState([]), useState(false), useState(false); no request sent
HistoryInit ==
    /\ scanHistory = <<>>
    /\ showHistory = FALSE
    /\ isLoadingHistory = FALSE
    /\ historyReqs = 0
    /\ lastHistory = NoHistory

\* the history lists the server may return
HistoryLists == { <<>>, <<"s1">>, <<"s1", "s2">> }

\* getScannedHistory: it throws, or resolves with success and maybe data
HistoryOutcomes ==
    { [threw |-> TRUE, success |-> FALSE, hasData |-> FALSE, data |-> <<>>] }
    \cup { [threw |-> FALSE, success |-> ok, hasData |-> FALSE, data |-> <<>>]
           : ok \in BOOLEAN }
    \cup { [threw |-> FALSE, success |-> ok, hasData |-> TRUE, data |-> l]
           : ok \in BOOLEAN, l \in HistoryLists }

\* a loadScanHistory that empties the list when the call fails
historyAfterLoadCleared(resp, prev) ==
    IF ~resp.threw /\ resp.success
    THEN (IF resp.hasData THEN resp.data ELSE <<>>)
    ELSE <<>>

\* scanHistory after a response:
\* if (response.success) setScanHistory(response.data || [])
historyAfterLoad(resp, prev) ==
    IF ~resp.threw /\ resp.success
    THEN (IF resp.hasData THEN resp.data ELSE <<>>)
    ELSE prev

\* the history button of the home view and of the result view:
\* loadScanHistory() up to its await, then setShowHistory(true).  The
\* history modal is rendered by the result view only, where it covers the
\* button.
ViewScanHistory ==
    /\ ~showCamera
    /\ scannedData.has => ~showHistory /\ ~showAddToMealModal
    /\ historyReqs < MaxHistoryLoads
    /\ isLoadingHistory' = TRUE
    /\ historyReqs' = historyReqs + 1
    /\ showHistory' = TRUE
    /\ UNCHANGED <<scanHistory, lastHistory>>
    /\ UNCHANGED nonHistoryVars

\* loadScanHistory after its await (try / catch / finally)
LoadScanHistoryDone ==
    /\ historyReqs > 0
    /\ \E resp \in HistoryOutcomes :
          /\ scanHistory' = historyAfterLoad(resp, scanHistory)
          /\ lastHistory' = [done |-> TRUE, threw |-> resp.threw,
                             success |-> resp.success,
                             hasData |-> resp.hasData, data |-> resp.data]
    /\ historyReqs' = historyReqs - 1
    /\ isLoadingHistory' = FALSE
    /\ UNCHANGED showHistory
    /\ UNCHANGED nonHistoryVars

\* the X button and onRequestClose of the history modal
CloseHistory ==
    /\ ResultShown
    /\ showHistory
    /\ showHistory' = FALSE
    /\ UNCHANGED <<scanHistory, isLoadingHistory, historyReqs, lastHistory>>
    /\ UNCHANGED nonHistoryVars

\* the scan history, opened from the home view or from a result
HistoryNext ==
    \/ ViewScanHistory
    \/ LoadScanHistoryDone
    \/ CloseHistory
    \/ CloseResult

(***************************************************************************)
(* StatisticsScreen: the progress bar of an achievement card               *)
(***************************************************************************)
\* a / b on JavaScript numbers a >= 0, b >= 0: a finite quotient num/den,
\* Infinity (a > 0, b = 0) or NaN (0 / 0)
jsDivide(a, b) ==
    IF b # 0 THEN [kind |-> "finite", num |-> a, den |-> b]
    ELSE IF a # 0 THEN [kind |-> "Infinity", num |-> 0, den |-> 1]
    ELSE [kind |-> "NaN", num |-> 0, den |-> 1]

\* x * k for the result of a division and a k > 0
jsTimes(x, k) ==
    IF x.kind = "finite" THEN [x EXCEPT !.num = x.num * k] ELSE x

\* width: `${(achievement.progress / achievement.max_progress) * 100}%`
achievementWidth(a) == jsTimes(jsDivide(a.progress, a.max_progress), 100)

NoAchievementView == [shown |-> FALSE,
                      width |-> [kind |-> "finite", num |-> 0, den |-> 1]]

AchInit ==
    /\ achievement \in [progress : 0..MaxProgress, max_progress : 0..MaxProgress]
    /\ achievementView = NoAchievementView

AchIdle ==
    /\ achievement = [progress |-> 0, max_progress |-> 1]
    /\ achievementView = NoAchievementView

\* an achievement card is rendered
RenderAchievement ==
    /\ ~achievementView.shown
    /\ achievementView' = [shown |-> TRUE,
                           width |-> achievementWidth(achievement)]
    /\ UNCHANGED achievement
    /\ UNCHANGED nonAchVars

\* the statistics are fetched again: the card is rendered anew
HideAchievement ==
    /\ achievementView.shown
    /\ achievementView' = NoAchievementView
    /\ UNCHANGED achievement
    /\ UNCHANGED nonAchVars

AchNext ==
    \/ RenderAchievement
    \/ HideAchievement

(***************************************************************************)
(* StatisticsScreen: the overview cards and the no-data state              *)
(***************************************************************************)
\* an optional number; averages are kept in tenths (19995 is 1999.5)
Absent     == [has |-> FALSE, v |-> 0]
Present(v) == [has |-> TRUE, v |-> v]

\* statistics?.field || 0 with every absent field read as 1
FieldOrOne(st, field) ==
    IF st.defined /\ st[field].has THEN st[field].v ELSE 1

\* statistics?.field || 0
FieldOrZero(st, field) ==
    IF st.defined /\ st[field].has THEN st[field].v ELSE 0

NoSummary == [defined |-> FALSE, average_calories |-> Absent,
              average_protein_g |-> Absent, totalMeals |-> Absent,
              currentStreak |-> Absent]

\* the averages, in tenths, and the counts a response may carry
AverageValues == {Absent, Present(0), Present(4), Present(19995)}
CountValues   == {Absent, Present(0), Present(3)}

Summaries ==
    {NoSummary} \cup
    [defined : {TRUE}, average_calories : AverageValues,
     average_protein_g : AverageValues, totalMeals : CountValues,
     currentStreak : CountValues]

NoOverview == [shown |-> FALSE, calories |-> 0, protein |-> 0,
               totalMeals |-> 0, currentStreak |-> 0, noData |-> FALSE]

\* the overview cards, the protein row and the no-data state
overviewOf(st) ==
    [shown         |-> TRUE,
     calories      |-> MathRound(FieldOrZero(st, "average_calories")),
     protein       |-> MathRound(FieldOrZero(st, "average_protein_g")),
     totalMeals    |-> FieldOrZero(st, "totalMeals"),
     currentStreak |-> FieldOrZero(st, "currentStreak"),
     noData        |-> FieldOrZero(st, "totalMeals") = 0]

OverviewInit ==
    /\ summary \in Summaries
    /\ overview = NoOverview

OverviewIdle ==
    /\ summary = NoSummary
    /\ overview = NoOverview

\* the screen is rendered with the statistics it holds
RenderOverview ==
    /\ ~overview.shown
    /\ overview' = overviewOf(summary)
    /\ UNCHANGED summary
    /\ UNCHANGED nonOverviewVars

\* the statistics are fetched again: the cards are rendered anew
HideOverview ==
    /\ overview.shown
    /\ overview' = NoOverview
    /\ UNCHANGED summary
    /\ UNCHANGED nonOverviewVars

OverviewNext ==
    \/ RenderOverview
    \/ HideOverview

(***************************************************************************)
(* Remote API: the analysis of a scanned product                           *)
(***************************************************************************)
\* the nutrients with an alert threshold and the allergens a user may avoid
AlertNutrients    == {"calories", "sodium", "sugar"}
ConflictAllergens == {"gluten", "nuts"}

\* the fixed penalties a configuration may set
Penalties == {10, 25, 40}

\* a score decremented without a floor
compatibilityScoreNoFloor(in) ==
    100 - in.alertPenalty * Cardinality(in.exceeded)
        - in.allergenPenalty * Cardinality(in.conflicts)

\* compatibility_score: starts at 100, decremented by a fixed penalty per
\* triggered alert and per conflicting allergen, floored at 0
compatibilityScore(in) ==
    Max(0, 100 - in.alertPenalty * Cardinality(in.exceeded)
               - in.allergenPenalty * Cardinality(in.conflicts))

\* analyze(product, quantityGrams, userTargets), as far as the score goes
analyze(in) == [compatibility_score |-> compatibilityScore(in)]

AnalyzeInit ==
    /\ \E ap \in Penalties : \E cp \in Penalties :
          analyzeIn = [exceeded |-> {}, conflicts |-> {},
                       alertPenalty |-> ap, allergenPenalty |-> cp]
    /\ analysis = analyze(analyzeIn)

AnalyzeIdle ==
    /\ analyzeIn = [exceeded |-> {}, conflicts |-> {},
                    alertPenalty |-> 10, allergenPenalty |-> 10]
    /\ analysis = analyze(analyzeIn)

\* the same product analysed with one more violated threshold
AddViolation ==
    /\ \E n \in AlertNutrients \ analyzeIn.exceeded :
          analyzeIn' = [analyzeIn EXCEPT !.exceeded = @ \cup {n}]
    /\ analysis' = analyze(analyzeIn')
    /\ UNCHANGED nonAnalyzeVars

\* the same product analysed with one more conflicting allergen
AddConflict ==
    /\ \E a \in ConflictAllergens \ analyzeIn.conflicts :
          analyzeIn' = [analyzeIn EXCEPT !.conflicts = @ \cup {a}]
    /\ analysis' = analyze(analyzeIn')
    /\ UNCHANGED nonAnalyzeVars

AnalyzeNext ==
    \/ AddViolation
    \/ AddConflict

(***************************************************************************)
(* Remote API: the daily contribution for a drawn target                   *)
(***************************************************************************)
\* amounts per 100 g, quantities in grams and daily targets drawn
Per100gValues  == {0, 5, 20, 50, 100, 400}
QuantityValues == {0, 50, 100, 150, 1000}
TargetValues   == {0, 50, 100}

NoTargetOut == [done |-> FALSE, percent |-> 0]

TargetInit ==
    /\ targetIn \in [per100g : Per100gValues, quantityGrams : QuantityValues,
                      target : TargetValues]
    /\ targetOut = NoTargetOut

TargetIdle ==
    /\ targetIn = [per100g |-> 0, quantityGrams |-> 100, target |-> 100]
    /\ targetOut = NoTargetOut

\* the server computes the contribution of the nutrient
ComputeContribution ==
    /\ ~targetOut.done
    /\ targetOut' = [done |-> TRUE,
                     percent |-> contributionPercent(targetIn.per100g,
                                                     targetIn.quantityGrams,
                                                     targetIn.target)]
    /\ UNCHANGED targetIn
    /\ UNCHANGED nonTargetVars

\* the product is analysed again
ResetContribution ==
    /\ targetOut.done
    /\ targetOut' = NoTargetOut
    /\ UNCHANGED targetIn
    /\ UNCHANGED nonTargetVars

TargetNext ==
    \/ ComputeContribution
    \/ ResetContribution

(***************************************************************************)
(* Specifications: one per screen or flow, the other screens at rest       *)
(***************************************************************************)
\* the parts of the program a specification leaves at rest
HelpersIdle == TierIdle /\ ContribIdle /\ AchIdle /\ OverviewIdle
               /\ AnalyzeIdle /\ TargetIdle
ExtrasIdle  == CustomInit /\ HistoryInit /\ RangeInit
ScreensIdle == StatsIdle /\ MenusIdle /\ ConfigInit /\ ScannerInit /\ MealIdle
               /\ ExtrasIdle

StatsStart   == StatsInit /\ MenusIdle /\ ConfigInit /\ ScannerInit
                /\ MealIdle /\ HelpersIdle /\ ExtrasIdle
SeriesStart  == SeriesInit /\ MenusIdle /\ ConfigInit /\ ScannerInit
                /\ MealIdle /\ HelpersIdle /\ ExtrasIdle
MenusStart   == StatsIdle /\ MenusInit /\ ConfigInit /\ ScannerInit
                /\ MealIdle /\ HelpersIdle /\ ExtrasIdle
ConfigStart  == StatsIdle /\ MenusLoaded /\ ConfigInit /\ ScannerInit
                /\ MealIdle /\ HelpersIdle /\ ExtrasIdle
CustomStart  == StatsIdle /\ MenusLoaded /\ ConfigInit /\ ScannerInit
                /\ MealIdle /\ HelpersIdle /\ ExtrasIdle
HistoryStart == StatsIdle /\ MenusIdle /\ ConfigInit
                /\ (ScannerInit \/ ScanDisplayed)
                /\ MealIdle /\ HelpersIdle /\ ExtrasIdle
RangeStart   == SeriesInit /\ MenusIdle /\ ConfigInit /\ ScannerInit
                /\ MealIdle /\ HelpersIdle /\ ExtrasIdle
ScannerStart == ScreensIdle /\ HelpersIdle
MealStart    == StatsIdle /\ MenusIdle /\ ConfigInit /\ ScanDisplayed
                /\ MealIdle /\ HelpersIdle /\ ExtrasIdle
TierStart    == ScreensIdle /\ TierInit /\ ContribIdle /\ AchIdle
                /\ OverviewIdle /\ AnalyzeIdle /\ TargetIdle
ContribStart == ScreensIdle /\ TierIdle /\ ContribInit /\ AchIdle
                /\ OverviewIdle /\ AnalyzeIdle /\ TargetIdle
AchStart     == ScreensIdle /\ TierIdle /\ ContribIdle /\ AchInit
                /\ OverviewIdle /\ AnalyzeIdle /\ TargetIdle
OverviewStart == ScreensIdle /\ TierIdle /\ ContribIdle /\ AchIdle
                 /\ OverviewInit /\ AnalyzeIdle /\ TargetIdle
AnalyzeStart == ScreensIdle /\ TierIdle /\ ContribIdle /\ AchIdle
                /\ OverviewIdle /\ AnalyzeInit /\ TargetIdle
TargetStart  == ScreensIdle /\ TierIdle /\ ContribIdle /\ AchIdle
                /\ OverviewIdle /\ AnalyzeIdle /\ TargetInit

SpecStats   == StatsStart /\ [][StatsNext]_vars
SpecSeries  == SeriesStart /\ [][SeriesNext]_vars
SpecMenus   == MenusStart /\ [][MenusNext]_vars
SpecStart   == MenusStart /\ [][StartNext]_vars
SpecConfig  == ConfigStart /\ [][ConfigNext]_vars
SpecCustom  == CustomStart /\ [][CustomNext]_vars
SpecGeneration == CustomStart /\ [][GenerationNext]_vars
\* every request settles (it resolves, is rejected or times out) and the
\* event loop then runs the rest of the handler that awaited it
SpecGenerationLive ==
    /\ CustomStart
    /\ [][GenerationNext]_vars
    /\ WF_vars(GenerateMenuDone)
    /\ WF_vars(GenerateCustomMenuDone)
SpecHistory == HistoryStart /\ [][HistoryNext]_vars
SpecRange   == RangeStart /\ [][RangeNext]_vars
SpecScanner == ScannerStart /\ [][ScannerNext]_vars
SpecMeal    == MealStart /\ [][MealNext]_vars
SpecTier    == TierStart /\ [][TierNext]_vars
SpecContrib == ContribStart /\ [][ContribNext]_vars
SpecAchievement == AchStart /\ [][AchNext]_vars
SpecOverview    == OverviewStart /\ [][OverviewNext]_vars
SpecAnalyze     == AnalyzeStart /\ [][AnalyzeNext]_vars
SpecTarget      == TargetStart /\ [][TargetNext]_vars

(***************************************************************************)
(* Properties                                                              *)
(***************************************************************************)

\* C1: chartData is null exactly when dailyBreakdown is absent or empty, and
\* otherwise the line and bar series each have as many labels as data
\* points, at most 7.
C1_ChartNullIffEmpty ==
    LET absentOrEmpty == \/ ~statistics.defined
                         \/ ~statistics.hasBreakdown
                         \/ statistics.dailyBreakdown = <<>>
    IN  /\ chartData.isNull <=> absentOrEmpty
        /\ ~chartData.isNull =>
              /\ Len(chartData.line.labels) = Len(chartData.line.data)
              /\ Len(chartData.bar.labels) = Len(chartData.bar.data)
              /\ Len(chartData.line.data) <= 7
              /\ Len(chartData.bar.data) <= 7

\* C2: for a breakdown of n records the calorie series has min(n, 7) points,
\* and point i is the calories of record n - min(n, 7) + i: the last
\* min(n, 7) records in their original order, none dropped or reordered.
C2_LastSevenInOrder ==
    (statistics.defined /\ statistics.hasBreakdown) =>
        LET b == statistics.dailyBreakdown
            n == Len(b)
            k == IF n < 7 THEN n ELSE 7
        IN  \A series \in {chartData.line.data, chartData.bar.data} :
               /\ Len(series) = k
               /\ \A i \in 1..k :
                     b[n - k + i].hasCalories =>
                         series[i] = b[n - k + i].calories

\* C2 witness: a breakdown of more than 7 records is charted; the first
\* record is dropped and the chart starts at the second one.
C2_Witness ==
    /\ statistics.defined /\ statistics.hasBreakdown
    /\ Len(statistics.dailyBreakdown) > 7
    /\ statistics.dailyBreakdown[1].hasCalories
    /\ statistics.dailyBreakdown[2].hasCalories
    /\ Len(chartData.line.data) = 7
    /\ chartData.line.data[1] = statistics.dailyBreakdown[2].calories

\* a loadMenus call completes in this step
LoadCompletes == loadReqs' # loadReqs /\ loadReqs' \subseteq loadReqs

\* C3: when a loadMenus call fails (throws, or success=false) while a loaded
\* menu list is displayed, menus is left as it was.
C3_FailedLoadKeepsMenus ==
    [][ ( /\ LoadCompletes
          /\ lastLoad'.threw \/ ~lastLoad'.success
          /\ menus # <<>> )
        => menus' = menus ]_vars

\* C4: for every score 0..100 the icon's tier is the colour's tier, so the
\* icon's colour is the card colour; 79 is caution in both, 80 good in both.
C4_IconTierMatchesColor ==
    tierView.shown =>
        /\ tierView.iconColor = tierView.color
        /\ tierScore = 79 => (tierView.color = "#f59e0b" /\ tierView.icon = "Info")
        /\ tierScore = 80 => (tierView.color = "#10b981"
                              /\ tierView.icon = "CheckCircle")

\* C5: getCompatibilityColor maps every score 0..100 to one of four distinct
\* colours: good iff score >= 80, caution iff 60 <= score < 80, warning iff
\* 40 <= score < 60, critical iff score < 40.
C5_ColorTiers ==
    tierView.shown =>
        /\ tierView.color = "#10b981" <=> tierScore >= 80
        /\ tierView.color = "#f59e0b" <=> (60 <= tierScore /\ tierScore < 80)
        /\ tierView.color = "#ef4444" <=> (40 <= tierScore /\ tierScore < 60)
        /\ tierView.color = "#dc2626" <=> tierScore < 40

\* C5 witness: the card is rendered for the boundary score 80, in the good
\* colour.
C5_Witness ==
    tierView.shown /\ tierScore = 80 /\ tierView.color = "#10b981"

\* C6: once every loadMenus call has completed, menus is the data of the
\* call whose response completed last, whatever the order of issue.
C6_LastCompletedWins ==
    ( /\ loadReqs = {}
      /\ lastLoad.id # 0
      /\ ~lastLoad.threw /\ lastLoad.success )
    => menus = (IF lastLoad.hasData THEN lastLoad.data ELSE <<>>)

\* C6 witness: all calls have completed, the one that completed last was
\* not the one issued last (they overlapped), and its list is displayed.
C6_Witness ==
    /\ loadReqs = {}
    /\ lastLoad.id # 0
    /\ lastLoad.id < nextLoadId
    /\ ~lastLoad.threw /\ lastLoad.success /\ lastLoad.hasData
    /\ lastLoad.data = <<"m1", "m2">>
    /\ menus = <<"m1", "m2">>

\* a scan request completes in this step
ScanCompletes == Len(scanReqs') < Len(scanReqs)

\* C7: the response of a scan that the user abandoned by closing the camera
\* is not applied: scannedData stays as it was.
C7_AbandonedScanNotApplied ==
    [][ (ScanCompletes /\ lastScan'.abandoned)
        => scannedData' = scannedData ]_vars

\* C8: a failed barcode or image scan (throws, or success=false) leaves
\* scannedData and showCamera unchanged and raises exactly one failure alert.
C8_FailedScanKeepsState ==
    [][ (ScanCompletes /\ lastScan'.outcome \in {"successFalse", "threw"})
        => /\ scannedData' = scannedData
           /\ showCamera' = showCamera
           /\ Len(scanAlerts') = Len(scanAlerts) + 1
           /\ scanAlerts'[Len(scanAlerts')] = Alert("error", lastScan'.kind) ]_vars

\* C8 witness: a scan has come back with success=false while the camera is
\* open; its alert is pending and nothing is displayed as scanned.
C8_Witness ==
    /\ lastScan.outcome = "successFalse"
    /\ scanReqs = <<>>
    /\ showCamera
    /\ ~scannedData.has
    /\ scanAlerts = << Alert("error", lastScan.kind) >>

\* a start-today request completes in this step
StartCompletes == startReqs' < startReqs

\* C9: every start-today request that fails (throws, or success=false)
\* raises an error alert.
C9_FailedStartAlerts ==
    [][ (StartCompletes /\ lastStart' \in {"successFalse", "threw"})
        => /\ Len(menuAlerts') = Len(menuAlerts) + 1
           /\ menuAlerts'[Len(menuAlerts')] = Alert("error", "start") ]_vars

\* C10: for every percentage p >= 0 the bar width is min(p, 100), within
\* [0, 100], and the text is p rounded to the nearest integer, unclamped;
\* p = 150 gives width 100 and text 150.  (Values in tenths of 1%.)
C10_BarClampedTextNot ==
    contribView.shown =>
        /\ contribView.width = (IF contribPct <= 1000 THEN contribPct ELSE 1000)
        /\ 0 <= contribView.width /\ contribView.width <= 1000
        /\ 10 * contribView.text - 5 <= contribPct
        /\ contribPct < 10 * contribView.text + 5
        /\ contribPct = 1500 =>
              (contribView.width = 1000 /\ contribView.text = 150)

\* C10 witness: 150% is rendered as a full bar with the text 150.
C10_Witness ==
    /\ contribView.shown
    /\ contribPct = 1500
    /\ contribView.width = 1000
    /\ contribView.text = 150

\* C11: an achievement whose max_progress is 0 is shown with a progress-bar
\* percentage of 0.
C11_ZeroMaxProgressIsZero ==
    (achievementView.shown /\ achievement.max_progress = 0) =>
        /\ achievementView.width.kind = "finite"
        /\ achievementView.width.num = 0

\* C12: a record lacking calories, protein_g, carbs_g or fats_g gives 0 at
\* its position of the corresponding series (a present value is kept), and
\* every series has one point per record of the charted window.
C12_MissingFieldIsZero ==
    (statistics.defined /\ statistics.hasBreakdown) =>
        LET b == statistics.dailyBreakdown
            n == Len(b)
            k == IF n < 7 THEN n ELSE 7
        IN  /\ Len(seriesData.caloriesData) = k
            /\ Len(seriesData.proteinData) = k
            /\ Len(seriesData.carbsData) = k
            /\ Len(seriesData.fatsData) = k
            /\ chartData.isNull \/ chartData.line.data = seriesData.caloriesData
            /\ \A i \in 1..k :
                  LET day == b[n - k + i]
                  IN  /\ seriesData.caloriesData[i] =
                            (IF day.hasCalories THEN day.calories ELSE 0)
                      /\ seriesData.proteinData[i] =
                            (IF day.hasProtein THEN day.protein_g ELSE 0)
                      /\ seriesData.carbsData[i] =
                            (IF day.hasCarbs THEN day.carbs_g ELSE 0)
                      /\ seriesData.fatsData[i] =
                            (IF day.hasFats THEN day.fats_g ELSE 0)

\* C12 witness: three records are charted; the first lacks calories and the
\* second protein_g; both series have three points, with 0 at that position
\* and the values of the other records around it.
C12_Witness ==
    /\ statistics.defined /\ statistics.hasBreakdown
    /\ Len(statistics.dailyBreakdown) = 3
    /\ ~statistics.dailyBreakdown[1].hasCalories
    /\ ~statistics.dailyBreakdown[2].hasProtein
    /\ statistics.dailyBreakdown[3].hasProtein
    /\ seriesData.caloriesData = <<0, 200, 300>>
    /\ seriesData.proteinData = <<1, 0, 3>>

\* C13: absent statistics, or an absent average, totalMeals or
\* currentStreak, is shown as 0 (a present one as its value, averages
\* rounded), and the no-data state is shown exactly when totalMeals is
\* absent or 0.
C13_AbsentShownAsZero ==
    overview.shown =>
        LET absent(f) == ~summary.defined \/ ~summary[f].has
        IN  /\ overview.calories =
                  (IF absent("average_calories") THEN 0
                   ELSE MathRound(summary.average_calories.v))
            /\ overview.protein =
                  (IF absent("average_protein_g") THEN 0
                   ELSE MathRound(summary.average_protein_g.v))
            /\ overview.totalMeals =
                  (IF absent("totalMeals") THEN 0 ELSE summary.totalMeals.v)
            /\ overview.currentStreak =
                  (IF absent("currentStreak") THEN 0
                   ELSE summary.currentStreak.v)
            /\ overview.noData <=>
                  (absent("totalMeals") \/ summary.totalMeals.v = 0)

\* C13 witness: statistics without average_calories and currentStreak but
\* with 3 meals are rendered: both cards show 0 and the no-data state is
\* not shown.
C13_Witness ==
    /\ overview.shown
    /\ summary.defined
    /\ ~summary.average_calories.has
    /\ ~summary.currentStreak.has
    /\ summary.totalMeals = Present(3)
    /\ overview.calories = 0
    /\ overview.currentStreak = 0
    /\ overview.totalMeals = 3
    /\ ~overview.noData

\* C14: in every reachable state of the menus screen generateConfig.days is
\* 3, 7 or 14 and generateConfig.mealsPerDay is one of the three meal
\* plans, and so are the fields of the body a generate request would carry.
C14_ConfigInOptions ==
    /\ generateConfig.days \in {3, 7, 14}
    /\ generateConfig.mealsPerDay \in
          {"3_main", "3_plus_2_snacks", "2_plus_1_intermediate"}
    /\ generateMenuBody.days \in {3, 7, 14}
    /\ generateMenuBody.mealsPerDay \in
          {"3_main", "3_plus_2_snacks", "2_plus_1_intermediate"}

\* C14 witness: a generate request is in flight after the user has chosen
\* 14 days and the 2 + 1 plan.
C14_Witness ==
    /\ isGenerating
    /\ genReqs = 1
    /\ generateConfig.days = 14
    /\ generateConfig.mealsPerDay = "2_plus_1_intermediate"

\* C15: the daily contribution shown for a nutrient at the chosen quantity
\* q is (nutrition_per_100g * q / 100) / target * 100, unclamped: protein
\* 20 g per 100 g at q = 150 with a target of 100 g is shown as 30.
C15_ContributionFollowsQuantity ==
    ResultShown =>
        /\ shownContribution.caloriesText =
              MathRound(contributionPercent(
                  scannedData.nutrition_per_100g.calories, quantity,
                  UserTargets.calories))
        /\ shownContribution.proteinText =
              MathRound(contributionPercent(
                  scannedData.nutrition_per_100g.protein, quantity,
                  UserTargets.protein))
        /\ (scannedData.nutrition_per_100g.protein = 20 /\ quantity = 150)
              => shownContribution.proteinText = 30

\* C16: analysing the same product with one more violated threshold or
\* conflicting allergen never increases compatibility_score, and the score
\* is always within 0..100.
C16_ScoreMonotonic ==
    [][ /\ analysis'.compatibility_score <= analysis.compatibility_score
        /\ analysis.compatibility_score \in 0..100
        /\ analysis'.compatibility_score \in 0..100 ]_vars

\* C16 witness: three violated thresholds at penalty 40 would take the
\* score below 0; it is floored at 0.
C16_Witness ==
    /\ analyzeIn.alertPenalty = 40
    /\ Cardinality(analyzeIn.exceeded) = 3
    /\ analysis.compatibility_score = 0

\* C17: for a daily target of 0 the nutrient's contribution is 0%, for
\* every product and quantity.
C17_ZeroTargetIsZero ==
    (targetOut.done /\ targetIn.target = 0) => targetOut.percent = 0

\* C17 witness: 20 g per 100 g at 150 g against a target of 0 is reported
\* as 0%.
C17_Witness ==
    /\ targetOut.done
    /\ targetIn = [per100g |-> 20, quantityGrams |-> 150, target |-> 0]
    /\ targetOut.percent = 0

\* an addToMealLog request completes / is sent in this step
AddCompletes == addReqs' < addReqs
AddSent      == addReqs' > addReqs

\* C18: addToMealLog sends no request while scannedData is null; a
\* successful request clears scannedData and closes the modal; a failed one
\* (throws, or success=false) leaves both unchanged and raises an error
\* alert.
C18_AddToMealLogOutcomes ==
    [][ /\ ~scannedData.has => ~AddSent
        /\ (AddCompletes /\ lastAdd' = "success")
              => (~scannedData'.has /\ ~showAddToMealModal')
        /\ (AddCompletes /\ lastAdd' \in {"successFalse", "threw"})
              => /\ scannedData' = scannedData
                 /\ showAddToMealModal' = showAddToMealModal
                 /\ Len(scanAlerts') = Len(scanAlerts) + 1
                 /\ scanAlerts'[Len(scanAlerts')] = Alert("error", "add") ]_vars

\* C18 witness: a request has failed with success=false: the scan is still
\* displayed, the modal still open and the error alert pending.
C18_Witness ==
    /\ lastAdd = "successFalse"
    /\ addReqs = 0
    /\ scannedData.has
    /\ showAddToMealModal
    /\ scanAlerts = << Alert("error", "add") >>

\* C19: every addToMealLog request sent carries the product of the scan
\* displayed, a quantity within 0..1000 and one of the four meal timings.
C19_RequestWithinLimits ==
    [][ AddSent =>
          /\ ResultShown
          /\ addToMealLogBody.product = scannedData.product
          /\ addToMealLogBody.product \in {"p1", "p2"}
          /\ addToMealLogBody.quantity \in 0..1000
          /\ addToMealLogBody.mealTiming \in
                {"BREAKFAST", "LUNCH", "DINNER", "SNACK"} ]_vars

\* C19 witness: a request is in flight for the displayed scan with the
\* quantity at its upper limit and the timing changed to DINNER.
C19_Witness ==
    /\ addReqs = 1
    /\ scannedData.has
    /\ quantity = 1000
    /\ mealTiming = "DINNER"

\* a generateMenu request completes in this step
GenCompletes == genReqs' < genReqs

\* the generate success alerts pending
SuccessAlerts(alerts) ==
    Cardinality({ i \in 1..Len(alerts) :
                     alerts[i] = Alert("success", "generate") })

\* the user confirms a generate success alert in this step
GenConfirmed == SuccessAlerts(menuAlerts') < SuccessAlerts(menuAlerts)

\* C20: the step in which generateMenu succeeds leaves the modal and the
\* menu list as they are and issues no load; the confirmation of its alert
\* closes the modal and issues exactly one loadMenus; the step in which it
\* fails (throws, or success=false) leaves modal and menus unchanged and
\* raises an error alert that shows the server's error text when the
\* response carried one.
C20_GenerateOutcomes ==
    [][ /\ (GenCompletes /\ ~lastGen'.threw /\ lastGen'.success)
              => /\ showGenerateModal' = showGenerateModal
                 /\ menus' = menus
                 /\ loadReqs' = loadReqs /\ nextLoadId' = nextLoadId
                 /\ SuccessAlerts(menuAlerts') = SuccessAlerts(menuAlerts) + 1
        /\ GenConfirmed
              => /\ ~showGenerateModal'
                 /\ nextLoadId' = nextLoadId + 1
                 /\ loadReqs' = loadReqs \cup
                       { [id |-> nextLoadId + 1, refresh |-> FALSE] }
                 /\ Cardinality(loadReqs') = Cardinality(loadReqs) + 1
        /\ (GenCompletes /\ (lastGen'.threw \/ ~lastGen'.success))
              => /\ showGenerateModal' = showGenerateModal
                 /\ menus' = menus
                 /\ Len(menuAlerts') = Len(menuAlerts) + 1
                 /\ menuAlerts'[Len(menuAlerts')].kind = "error"
                 /\ (~lastGen'.threw /\ lastGen'.hasText)
                       => menuAlerts'[Len(menuAlerts')].msg = lastGen'.text
      ]_vars

\* C20 witness: a request has failed with success=false and an error text;
\* the modal is still open and the alert pending shows that text.
C20_Witness ==
    /\ lastGen.done /\ ~lastGen.threw /\ ~lastGen.success /\ lastGen.hasText
    /\ showGenerateModal
    /\ genReqs = 0
    /\ menuAlerts = << AlertWith("error", "generate",
                                 "No meals match your budget") >>

\* generateCustomMenu raises its blank-description alert in this step
BlankAlertRaised ==
    /\ Len(menuAlerts') = Len(menuAlerts) + 1
    /\ menuAlerts'[Len(menuAlerts')] =
          AlertWith("error", "custom",
                    "Please enter a description for your custom menu")

\* generateCustomMenu sends its request in this step
CustomSent == customReqs' > customReqs

\* t is the text typed with the blanks at both ends removed
IsTrimOf(t, typed) ==
    /\ t # <<>>
    /\ t[1] # " "
    /\ t[Len(t)] # " "
    /\ \E i \in 1..Len(typed) :
          /\ i + Len(t) - 1 <= Len(typed)
          /\ SubSeq(typed, i, i + Len(t) - 1) = t
          /\ \A k \in 1..Len(typed) :
                (k < i \/ k > i + Len(t) - 1) => typed[k] = " "

\* C21: generateCustomMenu with a blank or whitespace-only customRequest
\* sends no request and leaves isGenerating, showCustomModal, customRequest
\* and menus unchanged, showing only an error alert; with a non-blank
\* customRequest it sends exactly one request whose body is the current
\* generateConfig plus the trimmed customRequest.
C21_CustomRequestTrimmed ==
    [][ /\ BlankAlertRaised
           => /\ \A k \in 1..Len(customRequest) : customRequest[k] = " "
              /\ customReqs' = customReqs
              /\ genReqs' = genReqs
              /\ UNCHANGED <<isGenerating, showCustomModal, customRequest,
                             menus>>
        /\ CustomSent
           => /\ \E k \in 1..Len(customRequest) : customRequest[k] # " "
              /\ customReqs' = customReqs + 1
              /\ genReqs' = genReqs
              /\ DOMAIN generateCustomBody
                    = DOMAIN generateConfig \cup {"customRequest"}
              /\ \A f \in DOMAIN generateConfig :
                    generateCustomBody[f] = generateConfig[f]
              /\ IsTrimOf(generateCustomBody.customRequest, customRequest)
      ]_vars

\* C21 witness: after a blank attempt raised its alert, a request is in
\* flight for a description typed with a leading blank and a configuration
\* changed from its default
C21_Witness ==
    /\ customReqs = 1
    /\ customRequest = <<" ", "a">>
    /\ generateConfig # DefaultGenerateConfig
    /\ \E i \in 1..Len(menuAlerts) :
          menuAlerts[i].msg = "Please enter a description for your custom menu"

\* a loadScanHistory call completes in this step
HistoryCompletes == historyReqs' < historyReqs

\* C22: loadScanHistory replaces scanHistory only when the response reports
\* success; a thrown call or a success=false response leaves scanHistory
\* unchanged; in every case isLoadingHistory is false once the call has
\* completed.
C22_HistoryKeptOnFailure ==
    [][ /\ HistoryCompletes
           => /\ ~isLoadingHistory'
              /\ (lastHistory'.threw \/ ~lastHistory'.success)
                    => scanHistory' = scanHistory
              /\ (~lastHistory'.threw /\ lastHistory'.success)
                    => scanHistory' = (IF lastHistory'.hasData
                                       THEN lastHistory'.data ELSE <<>>)
        /\ scanHistory' # scanHistory
           => HistoryCompletes /\ ~lastHistory'.threw /\ lastHistory'.success
      ]_vars

\* C22 witness: a loaded history is on display after a later call failed
C22_Witness ==
    /\ scanHistory = <<"s1", "s2">>
    /\ lastHistory.done
    /\ lastHistory.threw
    /\ ~isLoadingHistory
    /\ historyReqs = 0

\* C23: at most one generation request (generate or generate-custom) is in
\* flight at any time; while isGenerating is true no further generation
\* request can be started, and isGenerating is true exactly while a
\* generation request is in flight.
C23_OneGenerationInFlight ==
    /\ [](genReqs + customReqs <= 1)
    /\ [](isGenerating <=> genReqs + customReqs = 1)
    /\ [][ isGenerating => genReqs' <= genReqs /\ customReqs' <= customReqs
         ]_vars

\* C23 witness: a custom request is in flight, with the modal it was sent
\* from already closed, after a generate request has raised its alert
C23_Witness ==
    /\ isGenerating
    /\ customReqs = 1
    /\ genReqs = 0
    /\ ~showCustomModal
    /\ \E i \in 1..Len(menuAlerts) : menuAlerts[i].src = "generate"

\* a scan request is sent in this step
ScanSent == Len(scanReqs') > Len(scanReqs)

GenerationSent == genReqs' > genReqs \/ customReqs' > customReqs

\* C25: whenever a generation request is started isGenerating becomes true,
\* and once the request completes (success, success=false, or a thrown
\* error) isGenerating eventually becomes false; it is never stuck at true.
C25_GeneratingEventuallyCleared ==
    /\ [][ GenerationSent => isGenerating' ]_vars
    /\ [][ (genReqs' < genReqs \/ customReqs' < customReqs)
              => ~isGenerating' ]_vars
    /\ isGenerating ~> ~isGenerating

\* C25 witness: isGenerating is false again after a generation that threw
C25_Witness ==
    /\ ~isGenerating
    /\ genReqs = 0
    /\ customReqs = 0
    /\ lastGen.done
    /\ lastGen.threw
    /\ \E i \in 1..Len(menuAlerts) : menuAlerts[i].kind = "error"

\* C26: from every reachable quantity, pressing minus never increases the
\* quantity and pressing plus never decreases it.
C26_QuantityButtonsMonotone ==
    AddToMealShown =>
        /\ quantityAfterMinus(quantity) <= quantity
        /\ quantityAfterPlus(quantity) >= quantity

\* C27: refreshing is true exactly while a pull-to-refresh is in flight,
\* also when refreshes overlap each other or other reloads: it is not
\* cleared while another refresh is still pending, and it is false once all
\* have completed.
C27_RefreshingWhileRefreshPending ==
    refreshing <=> (\E r \in loadReqs : r.refresh)

\* C28: isLoading is true initially, becomes false when the first loadMenus
\* completes whatever its outcome, and is never set back to true by any
\* later reload, refresh or generation.
C28_LoadingClearedOnce ==
    /\ isLoading = TRUE
    /\ [][ isLoading' => isLoading ]_vars
    /\ [][ LoadCompletes => ~isLoading' ]_vars
    /\ [][ (isLoading /\ ~isLoading') => LoadCompletes ]_vars

\* C28 witness: the first load threw, and a refresh and a generation are in
\* flight with the loading view gone
C28_Witness ==
    /\ ~isLoading
    /\ lastLoad.id = 1
    /\ lastLoad.threw
    /\ refreshing
    /\ isGenerating
    /\ \E r \in loadReqs : r.refresh

\* C29: selectedTimeRange equals "week" in every reachable state; pressing
\* the time-range button only sets showTimeRangeModal to true, and the
\* statistics are only ever requested for the week window.
C29_TimeRangeAlwaysWeek ==
    /\ [](selectedTimeRange = "week")
    /\ [](statisticsQueryRange = "week")
    /\ [][ showTimeRangeModal' # showTimeRangeModal
              => /\ showTimeRangeModal'
                 /\ UNCHANGED <<selectedTimeRange, selectedChartType,
                                statsVars>> ]_vars

\* C29 witness: the time-range button has been pressed, another chart type
\* chosen and the statistics refetched
C29_Witness ==
    /\ showTimeRangeModal
    /\ selectedChartType = "pie"
    /\ statistics.defined
    /\ statsRefetches = 1
    /\ selectedTimeRange = "week"

\* the boolean fields of generateConfig
ToggleFields == {"includeLeftovers", "sameMealTimes"}

\* C30: each configuration action (choose days, choose mealsPerDay, choose
\* budget, toggle includeLeftovers, toggle sameMealTimes) changes only its
\* own field of generateConfig, and toggling the same boolean twice
\* restores the previous generateConfig.
C30_ConfigActionsIndependent ==
    /\ [][ \A f \in DOMAIN generateConfig :
              generateConfig'[f] # generateConfig[f]
                 => lastConfigAction' = f ]_vars
    /\ [][ (generateConfig' # generateConfig
            /\ lastConfigAction' \in ToggleFields)
              => generateConfig'[lastConfigAction']
                    = ~generateConfig[lastConfigAction'] ]_vars
    /\ [](\A f \in ToggleFields :
             /\ toggled(generateConfig, f)[f] = ~generateConfig[f]
             /\ toggled(toggled(generateConfig, f), f) = generateConfig)

\* C30 witness: with every other field changed from its default,
\* sameMealTimes has been toggled an even number of times
C30_Witness ==
    /\ lastConfigAction = "sameMealTimes"
    /\ generateConfig.sameMealTimes = DefaultGenerateConfig.sameMealTimes
    /\ generateConfig.days = 14
    /\ generateConfig.mealsPerDay = "2_plus_1_intermediate"
    /\ generateConfig.budget = 100
    /\ generateConfig.includeLeftovers

====
